---- MODULE Spec2Model ----
(***************************************************************************)
(* Model of the HubSpot list -> Avoma transcript -> webhook pipeline of    *)
(* src/avoma_plain_text.py.                                                *)
(*                                                                         *)
(* Time is counted in tenths of a time-unit, so that the default backoff   *)
(* of 0.7 is the integer 7 and the ceiling of 12.0 is 120; doubling a      *)
(* binary float is exact, so the integer arithmetic is that of the code.   *)
(***************************************************************************)
EXTENDS Integers, Sequences, FiniteSets, TLC

Min(a, b) == IF a <= b THEN a ELSE b
Max(a, b) == IF a >= b THEN a ELSE b

RECURSIVE SumSeq(_)
SumSeq(s) == IF s = <<>> THEN 0 ELSE Head(s) + SumSeq(Tail(s))

(***************************************************************************)
(* http_request (src/avoma_plain_text.py:41-55)                            *)
(***************************************************************************)

\* defaults of the signature, and the ceiling of the backoff
DefaultRetries == 5
DefaultBackoff == 7
Ceiling == 120

\* largest configured attempt bound explored
MaxRetries == 5

\* configured attempt bounds: negative, zero and positive
RetryValues == (0 - 1) .. MaxRetries

\* configured base delays, in tenths (never negative: time.sleep refuses a
\* negative length, and no caller configures one)
BaseDelays == {0, DefaultBackoff, 50, Ceiling + 10}

\* the outcome of an attempt that raised inside requests.request
Raised == 0 - 1
\* the value returned when the loop runs out: None
NoResponse == 0

\* statuses the server may answer with
Statuses == {200, 201, 202, 203, 204, 400, 401, 403, 404, 429, 500, 502, 503, 504}

VARIABLES
  hpc,            \* http_request: "loop" | "returned" | "raised"
  retries,        \* parameter retries
  backoff_start,  \* parameter backoff_start
  sleep,          \* local sleep
  outcomes,       \* what each attempt so far met: Raised or a status
  slept,          \* the delays passed to time.sleep, in order
  ret             \* the value returned (meaningful once hpc = "returned")

httpVars == <<hpc, retries, backoff_start, sleep, outcomes, slept, ret>>

VARIABLES
  pc,                \* run_pipeline: where the run stands
  only_emails,       \* parameter only_emails (<<>> for None)
  ids,               \* the list member ids collected
  contacts,          \* the batch-read records
  owner_email_by_id, \* owner id -> owner email, for the ids that resolved
  owner_lookups,     \* the owner ids looked up so far, in order
  cust_to_owner,     \* leaf email -> organizer email
  emails,            \* the leaves to process, sorted
  owners,            \* the keys of contacts_by_owner, in insertion order
  contacts_by_owner, \* organizer email -> its leaves, in order
  bi,                \* hs_batch_read_contacts: the chunks read so far
  oi,                \* position of the organizer loop in owners
  ci,                \* position of the leaf loop in the organizer's leaves
  all_items,         \* the meetings fetched for the current organizer
  cutoff,            \* the cutoff instant (a day)
  filtered,          \* indices into all_items of the meetings kept, sorted
  t_json,            \* line 339: what av_fetch_transcript_json handed back
  plain,             \* the normalised transcript of the current leaf
  results,           \* the run summary
  fetch_log,         \* the organizers the meeting fetch was called for, in order
  posts              \* the payloads handed to the webhook, in order

pipeVars == <<pc, only_emails, ids, contacts, owner_email_by_id, owner_lookups,
              cust_to_owner, emails, owners, contacts_by_owner, bi, oi, ci,
              all_items, cutoff, filtered, t_json, plain, results, fetch_log, posts>>

VARIABLES
  npc,      \* the normalizer: "start" | "done" | "again"
  payload,  \* the argument t of transcript_json_to_text
  out,      \* what the call yields: text, or an exception
  again     \* what the call yields on the text of out

normVars == <<npc, payload, out, again>>

VARIABLES
  fpc,            \* av_list_meetings_by_organizer: "idle", "request", "returned", "raised"
  tried,          \* line 138: number of parameter conventions entered
  pageno,         \* iteration of the page loop of line 140 within the convention
  pages,          \* the pages argument
  nxt,            \* line 152: the cursor of the next page, "" for None
  items,          \* line 131: the meetings gathered, each tagged with the
                  \* convention and page of the response that carried it
  reqs            \* the page requests issued (line 141), in order, each with
                  \* its convention, the status answered, the number of
                  \* meetings gathered before it, and whether the page
                  \* carried a next-page token

fetchVars == <<fpc, tried, pageno, pages, nxt, items, reqs>>

VARIABLES
  tpc,                 \* av_fetch_transcript_json: which endpoint is next
  transcription_uuid,  \* parameter transcription_uuid ("" for None)
  calls,               \* the endpoints requested so far, with their answers
  t_ret                \* the value returned (meaningful once tpc = "returned")

transVars == <<tpc, transcription_uuid, calls, t_ret>>

VARIABLES
  gpc,          \* lines 267-272: "members" | "batch" | "done" | "raised"
  after_token,  \* hs_get_list_member_ids: local after (0 for None)
  member_ids,   \* hs_get_list_member_ids: local ids
  page_reqs,    \* the membership pages requested so far, with their answers
  chunk_i,      \* hs_batch_read_contacts: loop variable i
  chunk_reqs,   \* the batch requests sent so far, with their answers
  records       \* hs_batch_read_contacts: local out (records by their id)

ingestVars == <<gpc, after_token, member_ids, page_reqs, chunk_i, chunk_reqs, records>>

vars == <<httpVars, pipeVars, normVars, fetchVars, transVars, ingestVars>>

\* line 46: the statuses that are retried
RetryableStatus(s) == s \in {429, 500, 502, 503, 504}

\* line 43: range(max(1, retries))
MaxAttemptsOneMore(n) == Max(1, n) + 1
MaxAttempts(n) == Max(1, n)

\* lines 48, 54: sleep = min(sleep * 2, 12.0)
NextSleepFlat(s) == s
NextSleep(s) == Min(s * 2, Ceiling)

\* the pipeline at rest, for the behaviours of one component alone
PipeIdle ==
  /\ pc = "idle"
  /\ only_emails = <<>>
  /\ ids = <<>>
  /\ contacts = <<>>
  /\ owner_email_by_id = <<>>
  /\ owner_lookups = <<>>
  /\ cust_to_owner = <<>>
  /\ emails = <<>>
  /\ owners = <<>>
  /\ contacts_by_owner = <<>>
  /\ bi = 0
  /\ oi = 0
  /\ ci = 0
  /\ all_items = <<>>
  /\ cutoff = 0
  /\ filtered = <<>>
  /\ t_json = [k |-> "null"]
  /\ plain = ""
  /\ results = [contacts_processed |-> 0, emails_found |-> 0, meetings_found |-> 0,
                transcripts_posted |-> 0, errors |-> <<>>]
  /\ fetch_log = <<>>
  /\ posts = <<>>

\* av_list_meetings_by_organizer at rest
FetchIdle ==
  /\ fpc = "idle"
  /\ tried = 0
  /\ pageno = 0
  /\ pages = 0
  /\ nxt = ""
  /\ items = <<>>
  /\ reqs = <<>>

\* av_fetch_transcript_json at rest
TransIdle ==
  /\ tpc = "idle"
  /\ transcription_uuid = ""
  /\ calls = <<>>
  /\ t_ret = [k |-> "null"]

\* hs_get_list_member_ids and hs_batch_read_contacts at rest
IngestIdle ==
  /\ gpc = "idle"
  /\ after_token = 0
  /\ member_ids = <<>>
  /\ page_reqs = <<>>
  /\ chunk_i = 0
  /\ chunk_reqs = <<>>
  /\ records = <<>>

\* the normalizer at rest
NormIdle ==
  /\ npc = "idle"
  /\ payload = [k |-> "null"]
  /\ out = [st |-> "none", s |-> <<>>]
  /\ again = [st |-> "none", s |-> <<>>]

InitHttp ==
  /\ hpc = "loop"
  /\ retries \in RetryValues
  /\ backoff_start \in BaseDelays
  /\ sleep = backoff_start
  /\ outcomes = <<>>
  /\ slept = <<>>
  /\ ret = NoResponse

\* lines 45-49: the attempt answers a retryable status: sleep, double, continue
HttpAttemptRetryable ==
  /\ hpc = "loop"
  /\ Len(outcomes) < MaxAttempts(retries)
  /\ \E s \in Statuses :
       /\ RetryableStatus(s)
       /\ outcomes' = Append(outcomes, s)
  /\ slept' = Append(slept, sleep)
  /\ sleep' = NextSleep(sleep)
  /\ UNCHANGED <<hpc, retries, backoff_start, ret>>

\* lines 45-50: the attempt answers any other status: return r
HttpAttemptReturnSlow ==
  /\ hpc = "loop"
  /\ Len(outcomes) < MaxAttempts(retries)
  /\ \E s \in Statuses :
       /\ ~RetryableStatus(s)
       /\ outcomes' = Append(outcomes, s)
       /\ ret' = s
  /\ slept' = Append(slept, sleep)
  /\ hpc' = "returned"
  /\ UNCHANGED <<retries, backoff_start, sleep>>

HttpAttemptReturn ==
  /\ hpc = "loop"
  /\ Len(outcomes) < MaxAttempts(retries)
  /\ \E s \in Statuses :
       /\ ~RetryableStatus(s)
       /\ outcomes' = Append(outcomes, s)
       /\ ret' = s
  /\ hpc' = "returned"
  /\ UNCHANGED <<retries, backoff_start, sleep, slept>>

\* lines 51-54: requests.request raised: log, sleep, double, next iteration
HttpAttemptExceptionUncaught ==
  /\ hpc = "loop"
  /\ Len(outcomes) < MaxAttempts(retries)
  /\ outcomes' = Append(outcomes, Raised)
  /\ hpc' = "raised"
  /\ UNCHANGED <<retries, backoff_start, sleep, slept, ret>>

HttpAttemptExceptionNoFinalSleep ==
  /\ hpc = "loop"
  /\ Len(outcomes) < MaxAttempts(retries)
  /\ outcomes' = Append(outcomes, Raised)
  /\ slept' = IF Len(outcomes) + 1 < MaxAttempts(retries)
              THEN Append(slept, sleep) ELSE slept
  /\ sleep' = NextSleep(sleep)
  /\ UNCHANGED <<hpc, retries, backoff_start, ret>>

HttpAttemptException ==
  /\ hpc = "loop"
  /\ Len(outcomes) < MaxAttempts(retries)
  /\ outcomes' = Append(outcomes, Raised)
  /\ slept' = Append(slept, sleep)
  /\ sleep' = NextSleep(sleep)
  /\ UNCHANGED <<hpc, retries, backoff_start, ret>>

\* line 55: the loop ran out: return None
HttpExhausted ==
  /\ hpc = "loop"
  /\ Len(outcomes) >= MaxAttempts(retries)
  /\ ret' = NoResponse
  /\ hpc' = "returned"
  /\ UNCHANGED <<retries, backoff_start, sleep, outcomes, slept>>

NextHttp ==
  \/ HttpAttemptRetryable /\ UNCHANGED <<pipeVars, normVars, fetchVars, transVars, ingestVars>>
  \/ HttpAttemptReturn /\ UNCHANGED <<pipeVars, normVars, fetchVars, transVars, ingestVars>>
  \/ HttpAttemptException /\ UNCHANGED <<pipeVars, normVars, fetchVars, transVars, ingestVars>>
  \/ HttpExhausted /\ UNCHANGED <<pipeVars, normVars, fetchVars, transVars, ingestVars>>

StartHttp == InitHttp /\ PipeIdle /\ NormIdle /\ FetchIdle /\ TransIdle /\ IngestIdle

SpecHttp == StartHttp /\ [][NextHttp]_vars

\* http_request at rest, for the behaviours of the other components: what a
\* call returns is then drawn from HttpReturns
HttpIdle ==
  /\ hpc = "idle"
  /\ retries = DefaultRetries
  /\ backoff_start = DefaultBackoff
  /\ sleep = DefaultBackoff
  /\ outcomes = <<>>
  /\ slept = <<>>
  /\ ret = NoResponse

\* what http_request can hand to its caller: None, or a response whose status
\* is not retried
HttpReturns == {NoResponse} \cup {s \in Statuses : ~RetryableStatus(s)}

\* requests' raise_for_status: raises for a 4xx or 5xx status
RaisesForStatus(s) == s >= 400 /\ s < 600

\* the truth value of what http_request returned, as `if r` and `if not r`
\* take it: None is false, and so is a requests.Response whose status is 400
\* or more (Response.__bool__ is Response.ok)
Ok(r) == r # NoResponse /\ r < 400

\* r.json() on a response that passed: the body parses to the shape the code
\* reads, or the call raises
Bodies == {"json", "invalid"}

(***************************************************************************)
(* transcript_json_to_text (src/avoma_plain_text.py:177-223)               *)
(*                                                                         *)
(* A JSON value is a record tagged by its kind; a string is the sequence   *)
(* of its characters, so that strip and join are computed, not assumed.    *)
(***************************************************************************)

JNull == [k |-> "null"]
JBool(b) == [k |-> "bool", b |-> b]
JNum(n) == [k |-> "num", n |-> n]
JStr(s) == [k |-> "str", s |-> s]
JArr(a) == [k |-> "arr", a |-> a]
JObj(o) == [k |-> "obj", o |-> o]

\* Python truthiness of a JSON value
Truthy(v) ==
  CASE v.k = "null" -> FALSE
    [] v.k = "bool" -> v.b
    [] v.k = "num" -> v.n # 0
    [] v.k = "str" -> v.s # <<>>
    [] v.k = "arr" -> v.a # <<>>
    [] v.k = "obj" -> DOMAIN v.o # {}

\* d.get(key) on the mapping of an object
Get(o, key) == IF key \in DOMAIN o THEN o[key] ELSE JNull

\* a or b
Either(a, b) == IF Truthy(a) THEN a ELSE b

\* str.strip()
White == {" ", "\n", "\t"}
RECURSIVE LStrip(_)
LStrip(s) == IF s # <<>> /\ Head(s) \in White THEN LStrip(Tail(s)) ELSE s
RECURSIVE RStrip(_)
RStrip(s) ==
  IF s # <<>> /\ s[Len(s)] \in White THEN RStrip(SubSeq(s, 1, Len(s) - 1)) ELSE s
StripNone(s) == s
StripLeftOnly(s) == LStrip(s)
Strip(s) == RStrip(LStrip(s))

\* "\n".join(parts)
RECURSIVE JoinLines(_)
JoinLines(parts) ==
  IF parts = <<>> THEN <<>>
  ELSE IF Len(parts) = 1 THEN parts[1]
  ELSE parts[1] \o <<"\n">> \o JoinLines(Tail(parts))

\* str(v) inside f"Speaker {sid}", for the ids of the model
Digits == <<"0", "1", "2", "3", "4", "5", "6", "7", "8", "9">>
ToStr(v) ==
  CASE v.k = "str" -> v.s
    [] v.k = "num" -> IF v.n \in 0 .. 9 THEN <<Digits[v.n + 1]>> ELSE <<"#">>
    [] v.k = "bool" -> IF v.b THEN <<"T", "r", "u", "e">> ELSE <<"F", "a", "l", "s", "e">>
    [] OTHER -> <<"?">>

\* a dict key must be hashable: a list or a dict is not
Hashable(v) == v.k \notin {"arr", "obj"}

\* equality of dict keys: True == 1 and False == 0
KeyNorm(v) == IF v.k = "bool" THEN JNum(IF v.b THEN 1 ELSE 0) ELSE v
KeyEq(a, b) == KeyNorm(a) = KeyNorm(b)

\* what a step of the function yields: text, nothing, or an exception
Text(s) == [st |-> "text", s |-> s]
Nothing == [st |-> "none", s |-> <<>>]
Raises == [st |-> "raise", s |-> <<>>]

\* lines 181-184: the first of content, text, transcript, body holding a
\* string that is non-empty once stripped
FlatKeysTextFirst == <<"text", "content", "body", "transcript">>
FlatKeys == <<"content", "text", "transcript", "body">>
RECURSIVE FlatFrom(_, _)
FlatFrom(o, i) ==
  IF i > Len(FlatKeys) THEN Nothing
  ELSE LET v == Get(o, FlatKeys[i])
       IN IF v.k = "str" /\ Strip(v.s) # <<>> THEN Text(Strip(v.s))
          ELSE FlatFrom(o, i + 1)

\* `for x in v or []` over the elements, each of which the body calls .get
\* on: a truthy value that is no list raises (a number or a bool is not
\* iterable; a string or a dict yields strings, which have no .get), and so
\* does a list element that is no dict
IterDicts(v) ==
  IF ~Truthy(v) THEN Text(<<>>)
  ELSE IF v.k # "arr" THEN Raises
  ELSE IF \E i \in 1 .. Len(v.a) : v.a[i].k # "obj" THEN Raises
  ELSE Text(v.a)

\* lines 186-191: the speakers table, as the list of (id, name) written
SpeakerNameOnly(sp) == Either(Get(sp.o, "name"), JStr(<<>>))
SpeakerName(sp) ==
  LET sid == Get(sp.o, "id")
  IN Either(Get(sp.o, "name"),
       Either(Get(sp.o, "speaker"),
         IF sid # JNull THEN JStr(<<"S", "p", "e", "a", "k", "e", "r", " ">> \o ToStr(sid))
         ELSE JStr(<<>>)))

RECURSIVE SpeakersFrom(_, _)
SpeakersFrom(list, i) ==
  IF i > Len(list) THEN Text(<<>>)
  ELSE LET sid == Get(list[i].o, "id")
           rest == SpeakersFrom(list, i + 1)
       IN IF sid = JNull THEN rest
          ELSE IF ~Hashable(sid) THEN Raises
          ELSE IF rest.st = "raise" THEN Raises
          ELSE Text(<<[id |-> sid, name |-> SpeakerName(list[i])]>> \o rest.s)

\* speakers.get(key): the last entry written under an equal key, else None
LookupSpeaker(table, key) ==
  LET hits == {i \in 1 .. Len(table) : KeyEq(table[i].id, key)}
  IN IF hits = {} THEN JNull
     ELSE table[CHOOSE i \in hits : \A j \in hits : j <= i].name

\* f"{spk + ': ' if spk else ''}{txt}": spk + ': ' raises unless spk is a str
PrefixedLine(spk, txt) ==
  IF ~Truthy(spk) THEN Text(txt)
  ELSE IF spk.k # "str" THEN Raises
  ELSE Text(spk.s \o <<":", " ">> \o txt)

\* (a or b or "").strip(): raises unless the value chosen is a str
StripOf(v) == IF v.k = "str" THEN Text(Strip(v.s)) ELSE Raises

\* lines 193-200: the lines of the turns
RECURSIVE TurnLines(_, _, _)
TurnLines(turns, i, table) ==
  IF i > Len(turns) THEN Text(<<>>)
  ELSE LET tr == turns[i]
           rest == TurnLines(turns, i + 1, table)
       IN IF tr.k # "obj" THEN rest
          ELSE LET txt == StripOf(Either(Get(tr.o, "transcript"),
                                    Either(Get(tr.o, "text"), JStr(<<>>))))
               IN IF txt.st = "raise" THEN Raises
                  ELSE IF txt.s = <<>> THEN rest
                  ELSE IF ~Hashable(Get(tr.o, "speaker_id")) THEN Raises
                  ELSE LET spk == Either(LookupSpeaker(table, Get(tr.o, "speaker_id")),
                                         JStr(<<>>))
                           line == PrefixedLine(spk, txt.s)
                       IN IF line.st = "raise" \/ rest.st = "raise" THEN Raises
                          ELSE Text(<<line.s>> \o rest.s)

\* lines 185-202: the turn list with its speakers table
TurnRule(o) ==
  IF Get(o, "transcript").k # "arr" THEN Nothing
  ELSE LET sps == IterDicts(Get(o, "speakers"))
       IN IF sps.st = "raise" THEN Raises
          ELSE LET table == SpeakersFrom(sps.s, 1)
               IN IF table.st = "raise" THEN Raises
                  ELSE LET lines == TurnLines(Get(o, "transcript").a, 1, table.s)
                       IN IF lines.st = "raise" THEN Raises
                          ELSE IF lines.s = <<>> THEN Nothing
                          ELSE Text(Strip(JoinLines(lines.s)))

\* lines 205-209: the lines of one of paragraphs, segments
RECURSIVE EntryLines(_, _)
EntryLines(list, i) ==
  IF i > Len(list) THEN Text(<<>>)
  ELSE LET it == list[i]
           spk == StripOf(Either(Get(it.o, "speaker"),
                            Either(Get(it.o, "speaker_label"), JStr(<<>>))))
           txt == StripOf(Either(Get(it.o, "text"), JStr(<<>>)))
           rest == EntryLines(list, i + 1)
       IN IF spk.st = "raise" \/ txt.st = "raise" \/ rest.st = "raise" THEN Raises
          ELSE IF txt.s = <<>> THEN rest
          ELSE Text(<<PrefixedLine(JStr(spk.s), txt.s).s>> \o rest.s)

\* lines 203-211: paragraphs, then segments, into one list of lines
EntryRule(o) ==
  LET ps == IterDicts(Get(o, "paragraphs"))
      ss == IterDicts(Get(o, "segments"))
  IN IF ps.st = "raise" \/ ss.st = "raise" THEN Raises
     ELSE LET pl == EntryLines(ps.s, 1)
              sl == EntryLines(ss.s, 1)
          IN IF pl.st = "raise" \/ sl.st = "raise" THEN Raises
             ELSE IF pl.s \o sl.s = <<>> THEN Nothing
             ELSE Text(Strip(JoinLines(pl.s \o sl.s)))

\* the function: Text(s) when it returns s, Raises when an exception escapes
RECURSIVE TranscriptJsonToText(_)
RECURSIVE PartsOf(_, _)
PartsOf(list, i) ==
  IF i > Len(list) THEN Text(<<>>)
  ELSE LET p == TranscriptJsonToText(list[i])
           rest == PartsOf(list, i + 1)
       IN IF p.st = "raise" \/ rest.st = "raise" THEN Raises
          ELSE IF p.s = <<>> THEN rest
          ELSE Text(<<p.s>> \o rest.s)

TranscriptJsonToText(t) ==
  IF ~Truthy(t) THEN Text(<<>>)
  ELSE IF t.k = "obj" THEN
    LET flat == FlatFrom(t.o, 1)
    IN IF flat.st = "text" THEN flat
       ELSE LET turns == TurnRule(t.o)
            IN IF turns.st # "none" THEN turns
               ELSE LET entries == EntryRule(t.o)
                    IN IF entries.st # "none" THEN entries
                       ELSE IF Get(t.o, "results").k = "arr"
                       THEN LET parts == PartsOf(Get(t.o, "results").a, 1)
                            IN IF parts.st = "raise" THEN Raises
                               ELSE IF parts.s # <<>> THEN Text(Strip(JoinLines(parts.s)))
                               ELSE Text(<<>>)
                       ELSE Text(<<>>)
  ELSE IF t.k = "arr" THEN
    LET parts == PartsOf(t.a, 1)
    IN IF parts.st = "raise" THEN Raises
       ELSE Text(Strip(JoinLines(parts.s)))
  ELSE IF t.k = "str" THEN Text(Strip(t.s))
  ELSE Text(<<>>)

\* the depth the recursion of lines 213 and 218 reaches on a payload: one
\* call for the payload, and one more level for the deepest element the
\* function is called on
RECURSIVE CallDepth(_)
DeepestOf(list) ==
  IF list = <<>> THEN 0
  ELSE CHOOSE d \in {CallDepth(list[i]) : i \in 1 .. Len(list)} :
         \A i \in 1 .. Len(list) : CallDepth(list[i]) <= d
CallDepth(t) ==
  IF ~Truthy(t) THEN 1
  ELSE IF t.k = "obj" THEN
    IF FlatFrom(t.o, 1).st = "text" \/ TurnRule(t.o).st # "none" \/ EntryRule(t.o).st # "none"
    THEN 1
    ELSE IF Get(t.o, "results").k = "arr" THEN 1 + DeepestOf(Get(t.o, "results").a)
    ELSE 1
  ELSE IF t.k = "arr" THEN 1 + DeepestOf(t.a)
  ELSE 1

\* the nesting the interpreter's call stack allows the function: the code
\* sets no limit of its own, and a call nested deeper raises RecursionError
RecursionLimit == 4

\* a call of the function from outside
RunNormalizer(t) ==
  IF CallDepth(t) > RecursionLimit THEN Raises ELSE TranscriptJsonToText(t)

(***************************************************************************)
(* The payloads the normalizer is run on                                   *)
(***************************************************************************)

\* longest list of turns, or of paragraphs or segments, in a payload
MaxEntries == 2

SHi == <<"h", "i">>
SYo == <<" ", "y", "o", " ">>
SAl == <<"A", "l">>
SBo == <<" ", "B", "o">>
SOne == <<"1">>

\* a mapping with one key, and the union of two mappings (the left one wins)
One(key, v) == [x \in {key} |-> v]
Plus(f, g) == [x \in DOMAIN f \cup DOMAIN g |-> IF x \in DOMAIN f THEN f[x] ELSE g[x]]

SeqsUpTo(S, n) == UNION {[1 .. m -> S] : m \in 0 .. n}

\* values found where a text is expected
TextVals ==
  {JNull, JStr(<<>>), JStr(<<" ">>), JStr(SHi), JStr(SYo), JNum(5), JArr(<<JStr(SHi)>>)}

Atoms ==
  {JNull, JBool(TRUE), JBool(FALSE), JNum(0), JNum(5), JStr(<<>>), JStr(<<" ", "\n">>),
   JStr(SHi), JStr(SYo), JArr(<<>>), JObj(<<>>)}

FlatObjects ==
  {JObj(Plus(One("content", a), One("text", b))) : a \in TextVals, b \in TextVals}
    \cup {JObj(One("transcript", a)) : a \in TextVals}
    \cup {JObj(Plus(One("body", a), One("segments", JArr(<<JObj(One("text", JStr(SHi)))>>)))) :
            a \in TextVals}

TurnEntries ==
  {JObj(Plus(One("text", JStr(SHi)), One("speaker_id", JNum(1)))),
   JObj(Plus(One("transcript", JStr(SYo)), One("speaker_id", JNum(2)))),
   JObj(One("text", JStr(SHi))),
   JObj(Plus(One("text", JNum(5)), One("speaker_id", JNum(1)))),
   JStr(SHi),
   JObj(Plus(One("text", JStr(<<" ">>)), One("speaker_id", JNum(1)))),
   JObj(Plus(One("text", JStr(SHi)), One("speaker_id", JArr(<<JNum(1)>>)))),
   JObj(Plus(One("text", JStr(SHi)), One("speaker_id", JBool(TRUE)))),
   JObj(Plus(One("text", JStr(SHi)), One("speaker_id", JStr(SOne))))}

SpeakerTables ==
  {JNull,
   JArr(<<>>),
   JArr(<<JObj(Plus(One("id", JNum(1)), One("name", JStr(SAl))))>>),
   JArr(<<JObj(Plus(One("id", JNum(1)), One("name", JStr(SAl)))), JObj(One("id", JNum(2)))>>),
   JArr(<<JObj(Plus(One("id", JNum(1)), One("name", JStr(SAl)))),
          JObj(Plus(One("id", JNum(1)), One("speaker", JStr(SBo))))>>),
   JArr(<<JObj(One("name", JStr(SAl)))>>),
   JArr(<<JObj(Plus(One("id", JNum(1)), One("name", JNum(7))))>>),
   JArr(<<JObj(Plus(One("id", JArr(<<JNum(1)>>)), One("name", JStr(SAl))))>>),
   JArr(<<JObj(Plus(One("id", JStr(SOne)), One("name", JStr(SBo))))>>),
   JArr(<<JStr(SAl)>>),
   JNum(5),
   JStr(SAl)}

TurnObjects ==
  {JObj(Plus(One("transcript", JArr(turns)), One("speakers", sp))) :
     turns \in SeqsUpTo(TurnEntries, MaxEntries), sp \in SpeakerTables}

ParaEntries ==
  {JObj(Plus(One("speaker", JStr(SAl)), One("text", JStr(SHi)))),
   JObj(Plus(One("speaker_label", JStr(SBo)), One("text", JStr(SYo)))),
   JObj(One("text", JStr(SHi))),
   JObj(Plus(One("speaker", JNum(7)), One("text", JStr(SHi)))),
   JObj(One("text", JNum(5))),
   JStr(SHi),
   JObj(Plus(One("speaker", JStr(SAl)), One("text", JStr(<<>>))))}

ParaObjects ==
  {JObj(One("paragraphs", JArr(l))) : l \in SeqsUpTo(ParaEntries, MaxEntries)}
    \cup {JObj(One("segments", JArr(l))) : l \in SeqsUpTo(ParaEntries, MaxEntries)}
    \cup {JObj(Plus(One("paragraphs", JArr(l)), One("segments", JArr(r)))) :
            l \in SeqsUpTo(ParaEntries, 1), r \in SeqsUpTo(ParaEntries, 1)}
    \cup {JObj(One("paragraphs", v)) : v \in {JNum(5), JStr(SHi), JObj(One("text", JStr(SHi)))}}

\* what a wrapper (an array, or an object with results) holds
Inner ==
  {JNull, JStr(SHi), JStr(SYo), JNum(5),
   JObj(One("text", JStr(SYo))),
   JObj(One("note", JStr(SHi))),
   JObj(One("paragraphs", JArr(<<JStr(SHi)>>))),
   JObj(One("results", JArr(<<JStr(SAl)>>))),
   JArr(<<JStr(SAl), JObj(One("body", JStr(SHi)))>>)}

Wrappers ==
  {JArr(l) : l \in SeqsUpTo(Inner, MaxEntries)}
    \cup {JObj(One("results", JArr(l))) : l \in SeqsUpTo(Inner, MaxEntries)}
    \cup {JObj(One("results", v)) : v \in {JNum(5), JStr(SHi)}}

\* objects that hold none of the keys the function reads, or hold one with a
\* value no rule takes up
Unrecognised ==
  {JObj(One("note", JStr(SHi))),
   JObj(Plus(One("utterances", JArr(<<JObj(One("text", JStr(SHi)))>>)), One("id", JNum(5)))),
   JObj(One("data", JObj(One("text", JStr(SHi))))),
   JObj(One("speakers", JNum(5))),
   JObj(One("results", JObj(One("text", JStr(SHi))))),
   JStr(<<"\t", " ">>)}

\* objects that hold a flat text next to the keys of the later rules
MixedObjects ==
  {JObj(Plus(One("text", a),
        Plus(One("transcript", JArr(<<JObj(One("text", JStr(SAl)))>>)),
             One("speakers", JArr(<<>>))))) : a \in TextVals}
    \cup {JObj(Plus(One("transcript", a), One("paragraphs", JArr(<<JObj(One("text", JStr(SAl)))>>)))) :
            a \in TextVals}
    \cup {JObj(Plus(One("body", a), Plus(One("text", b), One("results", JArr(<<JStr(SAl)>>))))) :
            a \in {JStr(SHi), JStr(<<" ">>)}, b \in {JNull, JStr(SYo)}}

\* a value under n levels of arrays, or of objects with results
RECURSIVE NestArr(_, _)
NestArr(n, v) == IF n = 0 THEN v ELSE JArr(<<NestArr(n - 1, v)>>)
RECURSIVE NestResults(_, _)
NestResults(n, v) == IF n = 0 THEN v ELSE JObj(One("results", JArr(<<NestResults(n - 1, v)>>)))

DeepPayloads ==
  {NestArr(n, v) : n \in 3 .. RecursionLimit + 1, v \in {JStr(SHi), JNull}}
    \cup {NestResults(n, v) : n \in 3 .. RecursionLimit + 1, v \in {JStr(SYo), JNum(5)}}

Payloads ==
  Atoms \cup FlatObjects \cup TurnObjects \cup ParaObjects \cup Wrappers \cup Unrecognised
    \cup MixedObjects \cup DeepPayloads

InitNorm ==
  /\ npc = "start"
  /\ payload \in Payloads
  /\ out = Nothing
  /\ again = Nothing

\* the call transcript_json_to_text(payload)
Normalize ==
  /\ npc = "start"
  /\ out' = RunNormalizer(payload)
  /\ npc' = "done"
  /\ UNCHANGED <<payload, again>>

\* the call on the text the first call returned
NormalizeAgain ==
  /\ npc = "done"
  /\ out.st = "text"
  /\ again' = RunNormalizer(JStr(out.s))
  /\ npc' = "again"
  /\ UNCHANGED <<payload, out>>

NextNorm ==
  \/ Normalize /\ UNCHANGED <<httpVars, pipeVars, fetchVars, transVars, ingestVars>>
  \/ NormalizeAgain /\ UNCHANGED <<httpVars, pipeVars, fetchVars, transVars, ingestVars>>

StartNorm == InitNorm /\ HttpIdle /\ PipeIdle /\ FetchIdle /\ TransIdle /\ IngestIdle

SpecNorm == StartNorm /\ [][NextNorm]_vars

\* C10: transcript_json_to_text never raises: for every payload, whatever the
\* type of the elements under the recognised keys, it returns a string.
C10_NeverRaises == npc # "start" => out.st = "text"

(***************************************************************************)
(* Records of the pipeline (src/avoma_plain_text.py:225-252)                *)
(*                                                                         *)
(* An absent key, None and "" behave alike wherever the code reads a field *)
(* through `m.get(k) or ...` or tests it with `not`, so all three are "".  *)
(***************************************************************************)

\* (x or "").strip().lower() on the raw identity strings of the model
NormEmail(raw) ==
  CASE raw = " A@C.io " -> "a@c.io"
    [] raw = "O1@S.io" -> "o1@s.io"
    [] raw = "  " -> ""
    [] OTHER -> raw

\* sorted(...) of a set of normalised identities
EmailOrder == <<"a@c.io", "b@c.io", "o1@s.io", "o2@s.io">>
SortedEmails(S) == SelectSeq(EmailOrder, LAMBDA e : e \in S)

Range(f) == {f[i] : i \in DOMAIN f}

\* parse_iso: None for a falsy or unparseable value, else the instant (here
\* its day); "Z" is replaced by "+00:00" and a naive time is taken as UTC
NoDate == 0
ParseIso(dt_str) ==
  CASE dt_str = "" -> NoDate
    [] dt_str = "2025-01-01T10:00:00Z" -> 1
    [] dt_str = "2025-01-03T10:00:00Z" -> 3
    [] dt_str = "2025-01-03T10:00:00+00:00" -> 3
    [] dt_str = "2025-01-03T10:00:00" -> 3
    [] dt_str = "2025-01-05T10:00:00Z" -> 5
    [] OTHER -> NoDate

\* datetime.max.replace(tzinfo=timezone.utc), as a day
DateMax == 9999

\* m.get("start_at") or m.get("startTime") or m.get("start_time") or m.get("start")
StartOf(m) ==
  IF m.start_at # "" THEN m.start_at
  ELSE IF m.startTime # "" THEN m.startTime
  ELSE IF m.start_time # "" THEN m.start_time
  ELSE m.start

\* looks_like_call
LooksLikeCall(m) ==
  \/ m.transcript_ready
  \/ m.transcription_uuid # ""
  \/ m.audio_ready
  \/ m.video_ready
  \/ m.processing_status \in {"transcription_available", "completed"}

\* attendees_emails: the distinct non-empty normalised attendee emails
AttendeesEmails(m) == {NormEmail(a) : a \in Range(m.attendees)} \ {""}

\* line 335: m.get("uuid") or m.get("id") or m.get("meetingId")
MeetingId(m) ==
  IF m.uuid # "" THEN m.uuid ELSE IF m.id # "" THEN m.id ELSE m.meetingId

\* lines 315-319: the organizer test of the filter
OrganizerMatchesAlways(m, organizer_email) == TRUE
OrganizerMatches(m, organizer_email) ==
  LET atts == AttendeesEmails(m)
      org == NormEmail(m.organizer_email)
      owner_in_attendees == organizer_email \in atts
  IN org = organizer_email \/ owner_in_attendees

\* lines 324-326: dt and dt < cutoff
BeforeCutoffOrUnknown(m, cutoff_day) == ParseIso(StartOf(m)) < cutoff_day
BeforeCutoff(m, cutoff_day) ==
  LET dt == ParseIso(StartOf(m))
  IN dt # NoDate /\ dt < cutoff_day

\* lines 312-328: the indices, in fetch order, of the meetings kept
RECURSIVE FilterFrom(_, _, _, _, _)
FilterFrom(ms, i, organizer_email, customer_email, cutoff_day) ==
  IF i > Len(ms) THEN <<>>
  ELSE LET m == ms[i]
           rest == FilterFrom(ms, i + 1, organizer_email, customer_email, cutoff_day)
       IN IF ~OrganizerMatches(m, organizer_email) THEN rest
          ELSE IF customer_email \notin AttendeesEmails(m) THEN rest
          ELSE IF ~LooksLikeCall(m) THEN rest
          ELSE IF BeforeCutoff(m, cutoff_day) THEN rest
          ELSE <<i>> \o rest

\* line 333: the sort key
SortKey(m) ==
  LET dt == ParseIso(StartOf(m))
  IN IF dt # NoDate THEN dt ELSE DateMax

\* list.sort is stable: an element goes after every element whose key is
\* not greater than its own
InsertByKeyBeforeEqual(sorted, i, ms) ==
  LET k == SortKey(ms[i])
      n == Cardinality({j \in 1 .. Len(sorted) : SortKey(ms[sorted[j]]) < k})
  IN SubSeq(sorted, 1, n) \o <<i>> \o SubSeq(sorted, n + 1, Len(sorted))
InsertByKey(sorted, i, ms) ==
  LET k == SortKey(ms[i])
      n == Cardinality({j \in 1 .. Len(sorted) : SortKey(ms[sorted[j]]) <= k})
  IN SubSeq(sorted, 1, n) \o <<i>> \o SubSeq(sorted, n + 1, Len(sorted))

RECURSIVE SortByStart(_, _)
SortByStart(idxs, ms) ==
  IF idxs = <<>> THEN <<>>
  ELSE InsertByKey(SortByStart(SubSeq(idxs, 1, Len(idxs) - 1), ms),
                   idxs[Len(idxs)], ms)

\* a meeting that passes every test for organizer o1@s.io and leaf a@c.io
BaseMeeting ==
  [organizer_email |-> "o1@s.io",
   attendees |-> <<"a@c.io", "o1@s.io">>,
   transcript_ready |-> TRUE,
   transcription_uuid |-> "",
   audio_ready |-> FALSE,
   video_ready |-> FALSE,
   processing_status |-> "",
   start_at |-> "2025-01-03T10:00:00Z",
   startTime |-> "",
   start_time |-> "",
   start |-> "",
   uuid |-> "m-1",
   id |-> "",
   meetingId |-> ""]

(***************************************************************************)
(* run_pipeline (src/avoma_plain_text.py:254-369) and the HubSpot readers  *)
(* it calls (lines 61-124).  What an outbound call returns is drawn from   *)
(* HttpReturns; a 200 body is drawn from the shapes below.                 *)
(***************************************************************************)

\* most list members, and most batch-read records, in a run
MaxContacts == 2

\* line 95: the batch size
ChunkSize == 100

EmptyMap == [x \in {} |-> ""]
MapPut(map, key, v) == [x \in DOMAIN map \cup {key} |-> IF x = key THEN v ELSE map[x]]

\* str.strip() on the owner ids of the model
StripId(raw) == IF raw = " 2 " THEN "2" ELSE raw

\* sorted(set(...)) of owner ids
OwnerIdOrder == <<"1", "2">>
SortedOwnerIdsAll(S) == OwnerIdOrder
SortedOwnerIds(S) == SelectSeq(OwnerIdOrder, LAMBDA x : x \in S)

\* the properties of a batch-read record: email and hubspot_owner_id
Contact(e, o) == [email |-> e, hubspot_owner_id |-> o]
ContactKinds ==
  {Contact("a@c.io", "1"), Contact("a@c.io", "2"), Contact("b@c.io", "1"),
   Contact("b@c.io", "2"), Contact("", "1"), Contact("a@c.io", ""),
   Contact(" A@C.io ", "2")}

\* the emails an owner lookup may answer with ("" for a body without one)
OwnerAnswers == {"", "o1@s.io", "O1@S.io", "o2@s.io"}

\* the id an owner lookup may answer with: none, the id asked for, or another
AnswerIds(oid) == {"", oid, IF oid = "1" THEN "2" ELSE "1"}

\* line 119: str(data.get("id") or oid)
OwnerKey(id, oid) == IF id # "" THEN id ELSE oid

\* the allow-lists a run may be given (<<>>: none)
OnlyEmailChoices == {<<>>, <<" A@C.io ">>}

\* meetings the conversation API answers with in a run
MB5 ==
  [BaseMeeting EXCEPT !.attendees = <<"b@c.io", "o1@s.io">>,
                      !.start_at = "2025-01-05T10:00:00Z", !.uuid = "m-2"]
MAB ==
  [BaseMeeting EXCEPT !.organizer_email = "o2@s.io",
                      !.attendees = <<"a@c.io", "b@c.io", "o1@s.io", "o2@s.io">>,
                      !.start_at = "", !.uuid = "", !.id = "m-3"]
MNoId == [BaseMeeting EXCEPT !.uuid = ""]
MNoCall == [BaseMeeting EXCEPT !.transcript_ready = FALSE, !.uuid = "m-4"]
PipelineLists ==
  {<<>>, <<BaseMeeting>>, <<MB5, MAB, BaseMeeting>>, <<MNoCall, MNoId>>, <<MAB, MB5>>}

\* what av_fetch_transcript_json hands back: None, or a JSON body
TranscriptResults ==
  {JNull, JObj(<<>>), JStr(<<"h", "e", "l", "l", "o", " ", "w", "o", "r", "l", "d", "\n">>),
   JObj(One("text", JStr(<<" ">>))), JObj(One("paragraphs", JArr(<<JStr(SHi)>>))),
   JStr(<<" ", "\n">>)}

\* line 300: the cutoff of a run, as a day (now minus the configured days)
RunCutoffs == {2}

\* lines 273-277: the distinct truthy owner ids of the records
OwnerIdsOf(cs) ==
  {cs[i].hubspot_owner_id : i \in 1 .. Len(cs)} \ {""}

\* lines 280-289: the records in order, a later record overwriting an earlier
RECURSIVE CustToOwnerFirstWins(_, _, _, _)
CustToOwnerFirstWins(cs, i, byId, map) ==
  IF i > Len(cs) THEN map
  ELSE LET ce == NormEmail(cs[i].email)
           oid == StripId(cs[i].hubspot_owner_id)
       IN IF ce # "" /\ ce \notin DOMAIN map /\ oid \in DOMAIN byId /\ byId[oid] # ""
          THEN CustToOwnerFirstWins(cs, i + 1, byId, MapPut(map, ce, byId[oid]))
          ELSE CustToOwnerFirstWins(cs, i + 1, byId, map)
RECURSIVE CustToOwnerFrom(_, _, _, _)
CustToOwnerFrom(cs, i, byId, map) ==
  IF i > Len(cs) THEN map
  ELSE LET ce == NormEmail(cs[i].email)
           oid == StripId(cs[i].hubspot_owner_id)
       IN IF ce = "" THEN CustToOwnerFrom(cs, i + 1, byId, map)
          ELSE IF oid \in DOMAIN byId /\ byId[oid] # ""
          THEN CustToOwnerFrom(cs, i + 1, byId, MapPut(map, ce, byId[oid]))
          ELSE CustToOwnerFrom(cs, i + 1, byId, map)

\* lines 291-293: the sorted leaves, cut to the allow-list when one is given
EmailsOfUnfiltered(map, only) == SortedEmails(DOMAIN map)
EmailsOf(map, only) ==
  LET all == SortedEmails(DOMAIN map)
      allow == {NormEmail(only[i]) : i \in 1 .. Len(only)}
  IN IF only # <<>> THEN SelectSeq(all, LAMBDA e : e \in allow) ELSE all

\* lines 302-304: the keys of contacts_by_owner, in insertion order
RECURSIVE OwnersPerLeaf(_, _)
OwnersPerLeaf(es, map) ==
  IF es = <<>> THEN <<>> ELSE <<map[Head(es)]>> \o OwnersPerLeaf(Tail(es), map)
RECURSIVE GroupOwners(_, _)
GroupOwners(es, map) ==
  IF es = <<>> THEN <<>>
  ELSE LET before == GroupOwners(SubSeq(es, 1, Len(es) - 1), map)
           o == map[es[Len(es)]]
       IN IF o \in Range(before) THEN before ELSE Append(before, o)

\* lines 303-304: the leaves appended under an organizer, in order
GroupOfAll(es, map, o) == es
GroupOf(es, map, o) == SelectSeq(es, LAMBDA e : map[e] = o)

InitPipeline ==
  /\ pc = "start"
  /\ only_emails \in OnlyEmailChoices
  /\ ids = <<>>
  /\ contacts = <<>>
  /\ owner_email_by_id = EmptyMap
  /\ owner_lookups = <<>>
  /\ cust_to_owner = EmptyMap
  /\ emails = <<>>
  /\ owners = <<>>
  /\ contacts_by_owner = EmptyMap
  /\ bi = 0
  /\ oi = 0
  /\ ci = 0
  /\ all_items = <<>>
  /\ cutoff = 0
  /\ filtered = <<>>
  /\ t_json = JNull
  /\ plain = ""
  /\ results = [contacts_processed |-> 0, emails_found |-> 0, meetings_found |-> 0,
                transcripts_posted |-> 0, errors |-> <<>>]
  /\ fetch_log = <<>>
  /\ posts = <<>>

\* lines 62-65: the list lookup; a false response or a 404 raises
\* RuntimeError, and raise_for_status raises for an error status
ListLookup ==
  /\ pc = "start"
  /\ \E r \in HttpReturns :
       pc' = IF ~Ok(r) \/ r = 404 THEN "raised"
             ELSE IF RaisesForStatus(r) THEN "raised"
             ELSE "page"
  /\ UNCHANGED <<only_emails, ids, contacts, owner_email_by_id, owner_lookups,
                 cust_to_owner, emails, owners, contacts_by_owner, bi, oi, ci, all_items,
                 cutoff, filtered, plain, results, t_json, fetch_log, posts>>

\* lines 267-270: hs_get_list_member_ids has returned list
IdsReturned(list) ==
  /\ ids' = list
  /\ results' = [results EXCEPT !.contacts_processed = Len(list)]
  /\ pc' = IF list = <<>> THEN "done" ELSE "batch"

\* lines 70-85: one page of the memberships; a false response or a 404 ends
\* the paging with the ids collected so far
ListPage ==
  /\ pc = "page"
  /\ \E rr \in HttpReturns, body \in Bodies, n \in 0 .. MaxContacts - Len(ids),
        after \in BOOLEAN :
       IF ~Ok(rr) \/ rr = 404 THEN IdsReturned(ids)
       ELSE IF RaisesForStatus(rr) \/ body = "invalid"
       THEN pc' = "raised" /\ UNCHANGED <<ids, results>>
       ELSE LET list == ids \o [j \in 1 .. n |-> Len(ids) + j]
            IN IF after
               THEN ids' = list /\ UNCHANGED <<pc, results>>
               ELSE IdsReturned(list)
  /\ UNCHANGED <<only_emails, contacts, owner_email_by_id, owner_lookups,
                 cust_to_owner, emails, owners, contacts_by_owner, bi, oi, ci, all_items,
                 cutoff, filtered, plain, t_json, fetch_log, posts>>

\* lines 95-103: one chunk of hs_batch_read_contacts; a false response ends
\* the reading with the records read so far
BatchRead ==
  /\ pc = "batch"
  /\ LET from == ChunkSize * bi
         chunk == SubSeq(ids, from + 1, Min(Len(ids), from + ChunkSize))
     IN \E r \in HttpReturns, body \in Bodies, got \in SeqsUpTo(ContactKinds, Len(chunk)) :
          IF ~Ok(r)
          THEN pc' = "owners" /\ UNCHANGED <<contacts, bi>>
          ELSE IF RaisesForStatus(r) \/ body = "invalid"
          THEN pc' = "raised" /\ UNCHANGED <<contacts, bi>>
          ELSE /\ contacts' = contacts \o got
               /\ bi' = bi + 1
               /\ pc' = IF from + ChunkSize < Len(ids) THEN "batch" ELSE "owners"
  /\ UNCHANGED <<only_emails, ids, owner_email_by_id, owner_lookups,
                 cust_to_owner, emails, owners, contacts_by_owner, oi, ci, all_items,
                 cutoff, filtered, plain, results, t_json, fetch_log, posts>>

\* lines 110-122: the lookup of the next distinct owner id; the owner resolves
\* when the response is true, its body parses and holds a non-empty email
\* (an exception of raise_for_status or json is swallowed at line 120)
OwnerLookup ==
  /\ pc = "owners"
  /\ LET unique_ids == SortedOwnerIds(OwnerIdsOf(contacts))
     IN /\ Len(owner_lookups) < Len(unique_ids)
        /\ LET oid == unique_ids[Len(owner_lookups) + 1]
           IN /\ owner_lookups' = Append(owner_lookups, oid)
              /\ \E r \in HttpReturns, body \in Bodies, answer \in OwnerAnswers,
                    id \in AnswerIds(oid) :
                   LET email == NormEmail(answer)
                   IN owner_email_by_id' =
                        IF ~Ok(r) \/ r = 404 THEN owner_email_by_id
                        ELSE IF RaisesForStatus(r) \/ body = "invalid" THEN owner_email_by_id
                        ELSE IF email # ""
                        THEN MapPut(owner_email_by_id, OwnerKey(id, oid), email)
                        ELSE owner_email_by_id
  /\ UNCHANGED <<pc, only_emails, ids, contacts, cust_to_owner, emails, owners,
                 contacts_by_owner, bi, oi, ci, all_items, cutoff, filtered, plain,
                 results, t_json, fetch_log, posts>>

\* lines 280-304: the leaf -> organizer map, the leaves and their groups
Correlate ==
  /\ pc = "owners"
  /\ Len(owner_lookups) = Cardinality(OwnerIdsOf(contacts))
  /\ LET map == CustToOwnerFrom(contacts, 1, owner_email_by_id, EmptyMap)
         es == EmailsOf(map, only_emails)
         keys == GroupOwners(es, map)
     IN /\ cust_to_owner' = map
        /\ emails' = es
        /\ results' = [results EXCEPT !.emails_found = Len(es)]
        /\ IF es = <<>>
           THEN /\ pc' = "done"
                /\ UNCHANGED <<owners, contacts_by_owner, oi, cutoff>>
           ELSE /\ pc' = "fetch"
                /\ cutoff' \in RunCutoffs
                /\ owners' = keys
                /\ contacts_by_owner' =
                     [o \in Range(keys) |-> GroupOf(es, map, o)]
                /\ oi' = 1
  /\ UNCHANGED <<only_emails, ids, contacts, owner_email_by_id, owner_lookups, bi, ci,
                 all_items, filtered, plain, t_json, fetch_log, posts>>

\* the end of one pass of the leaf loop (a `continue`, or line 367): the
\* next leaf of the organizer, else the next organizer, else line 369
NextLeafAgain ==
  /\ pc' = "select"
  /\ UNCHANGED <<oi, ci, all_items>>
NextLeaf ==
  IF ci < Len(contacts_by_owner[owners[oi]])
  THEN /\ pc' = "select"
       /\ ci' = ci + 1
       /\ UNCHANGED <<oi, all_items>>
  ELSE IF oi < Len(owners)
  THEN /\ pc' = "fetch"
       /\ oi' = oi + 1
       /\ ci' = 0
       /\ all_items' = <<>>
  ELSE /\ pc' = "done"
       /\ UNCHANGED <<oi, ci, all_items>>

\* lines 306-309: the meeting fetch for the organizer at hand; an empty list
\* moves on to the next organizer, and a body that does not parse raises out
\* of the run (line 147)
FetchMeetings ==
  /\ pc = "fetch"
  /\ fetch_log' = Append(fetch_log, owners[oi])
  /\ \/ /\ pc' = "raised"
        /\ UNCHANGED <<oi, ci, all_items>>
     \/ \E got \in PipelineLists :
          IF got = <<>>
          THEN IF oi < Len(owners)
               THEN /\ oi' = oi + 1
                    /\ UNCHANGED <<pc, ci, all_items>>
               ELSE /\ pc' = "done"
                    /\ UNCHANGED <<oi, ci, all_items>>
          ELSE /\ all_items' = got
               /\ pc' = "select"
               /\ ci' = 1
               /\ UNCHANGED oi
  /\ UNCHANGED <<only_emails, ids, contacts, owner_email_by_id, owner_lookups,
                 cust_to_owner, emails, owners, contacts_by_owner, bi, cutoff,
                 filtered, t_json, plain, results, posts>>

\* lines 311-337: filter, sort, take the first, read its identifier
SelectMeeting ==
  /\ pc = "select"
  /\ LET organizer_email == owners[oi]
         customer_email == contacts_by_owner[organizer_email][ci]
         kept == FilterFrom(all_items, 1, organizer_email, customer_email, cutoff)
         sorted == SortByStart(kept, all_items)
     IN /\ filtered' = sorted
        /\ IF sorted = <<>> THEN NextLeaf
           ELSE IF MeetingId(all_items[sorted[1]]) = "" THEN NextLeaf
           ELSE /\ pc' = "transcript"
                /\ UNCHANGED <<oi, ci, all_items>>
  /\ UNCHANGED <<only_emails, ids, contacts, owner_email_by_id, owner_lookups,
                 cust_to_owner, emails, owners, contacts_by_owner, bi, cutoff,
                 plain, results, t_json, fetch_log, posts>>

\* lines 339-344: the transcript of the meeting selected, as plain text
FetchTranscript ==
  /\ pc = "transcript"
  /\ \E got \in TranscriptResults :
       /\ t_json' = got
       /\ IF ~Truthy(got)
          THEN NextLeaf /\ UNCHANGED plain
          ELSE LET text == RunNormalizer(got)
               IN IF text.st = "raise"
                  THEN /\ pc' = "raised"
                       /\ UNCHANGED <<oi, ci, all_items, plain>>
                  ELSE IF text.s = <<>>
                  THEN NextLeaf /\ UNCHANGED plain
                  ELSE /\ plain' = text.s
                       /\ pc' = "deliver"
                       /\ UNCHANGED <<oi, ci, all_items>>
  /\ UNCHANGED <<only_emails, ids, contacts, owner_email_by_id, owner_lookups,
                 cust_to_owner, emails, owners, contacts_by_owner, bi, cutoff,
                 filtered, results, fetch_log, posts>>

\* line 361: wr and wr.status_code in (200, 201, 202, 204)
DeliveredNever(wr) == FALSE
Delivered(wr) == Ok(wr) /\ wr \in {200, 201, 202, 204}

\* line 364: wr.status_code if wr else 'no-response'
ObservedStatus(wr) == IF Ok(wr) THEN wr ELSE NoResponse

\* line 367: results["meetings_found"] += len(filtered)
MeetingsFoundReset(before, n) == n
MeetingsFound(before, n) == before + n

\* lines 346-367: the POST to the webhook and the tally
Deliver ==
  /\ pc = "deliver"
  /\ LET organizer_email == owners[oi]
         customer_email == contacts_by_owner[organizer_email][ci]
         meeting_id == MeetingId(all_items[filtered[1]])
     IN \E wr \in HttpReturns :
          /\ posts' = Append(posts, [email |-> customer_email,
                                     organizer_email |-> organizer_email,
                                     meeting_id |-> meeting_id,
                                     transcript_text |-> plain,
                                     answer |-> wr])
          /\ results' =
               [results EXCEPT
                  !.transcripts_posted = IF Delivered(wr) THEN @ + 1 ELSE @,
                  !.errors = IF Delivered(wr) THEN @
                             ELSE Append(@, [meeting_id |-> meeting_id,
                                             status |-> ObservedStatus(wr)]),
                  !.meetings_found = MeetingsFound(@, Len(filtered))]
  /\ NextLeaf
  /\ UNCHANGED <<only_emails, ids, contacts, owner_email_by_id, owner_lookups,
                 cust_to_owner, emails, owners, contacts_by_owner, bi, cutoff,
                 filtered, plain, t_json, fetch_log>>

NextPipeline ==
  \/ ListLookup /\ UNCHANGED <<httpVars, normVars, fetchVars, transVars, ingestVars>>
  \/ ListPage /\ UNCHANGED <<httpVars, normVars, fetchVars, transVars, ingestVars>>
  \/ BatchRead /\ UNCHANGED <<httpVars, normVars, fetchVars, transVars, ingestVars>>
  \/ OwnerLookup /\ UNCHANGED <<httpVars, normVars, fetchVars, transVars, ingestVars>>
  \/ Correlate /\ UNCHANGED <<httpVars, normVars, fetchVars, transVars, ingestVars>>
  \/ FetchMeetings /\ UNCHANGED <<httpVars, normVars, fetchVars, transVars, ingestVars>>
  \/ SelectMeeting /\ UNCHANGED <<httpVars, normVars, fetchVars, transVars, ingestVars>>
  \/ FetchTranscript /\ UNCHANGED <<httpVars, normVars, fetchVars, transVars, ingestVars>>
  \/ Deliver /\ UNCHANGED <<httpVars, normVars, fetchVars, transVars, ingestVars>>

StartPipeline == InitPipeline /\ HttpIdle /\ NormIdle /\ FetchIdle /\ TransIdle /\ IngestIdle

SpecPipeline == StartPipeline /\ [][NextPipeline]_vars

(***************************************************************************)
(* The leaf loop of run_pipeline on the meeting lists an organizer may     *)
(* have: the run stands at line 311 with organizer o1@s.io fetched and its *)
(* leaves a@c.io and b@c.io to go                                          *)
(***************************************************************************)

\* longest meeting list of a fetch
MaxMeetings == 3

Day1 == "2025-01-01T10:00:00Z"
Day3 == "2025-01-03T10:00:00Z"
Day5 == "2025-01-05T10:00:00Z"

\* variants of BaseMeeting in its start time, its organizer and attendees,
\* and its call signals
MeetingKinds ==
  {BaseMeeting,
   [BaseMeeting EXCEPT !.start_at = Day1],
   [BaseMeeting EXCEPT !.start_at = "2025-01-03T10:00:00+00:00"],
   [BaseMeeting EXCEPT !.start_at = Day5],
   [BaseMeeting EXCEPT !.start_at = ""],
   [BaseMeeting EXCEPT !.start_at = "not-a-date"],
   [BaseMeeting EXCEPT !.start_at = "", !.start = Day1],
   [BaseMeeting EXCEPT !.start_at = "", !.startTime = Day5],
   [BaseMeeting EXCEPT !.start_at = "not-a-date", !.start_time = Day3],
   [BaseMeeting EXCEPT !.organizer_email = "o2@s.io"],
   [BaseMeeting EXCEPT !.organizer_email = "o2@s.io", !.attendees = <<"a@c.io", "b@c.io">>],
   [BaseMeeting EXCEPT !.organizer_email = "O1@S.io", !.attendees = <<" A@C.io ">>,
                       !.start_at = Day5],
   [BaseMeeting EXCEPT !.attendees = <<"o1@s.io", "b@c.io">>],
   [BaseMeeting EXCEPT !.organizer_email = "", !.attendees = <<"a@c.io", "  ">>],
   [BaseMeeting EXCEPT !.transcript_ready = FALSE],
   [BaseMeeting EXCEPT !.transcript_ready = FALSE, !.processing_status = "completed",
                       !.start_at = ""],
   [BaseMeeting EXCEPT !.transcript_ready = FALSE, !.processing_status = "scheduled"],
   [BaseMeeting EXCEPT !.transcript_ready = FALSE, !.transcription_uuid = "t-1",
                       !.uuid = ""],
   [BaseMeeting EXCEPT !.transcript_ready = FALSE, !.video_ready = TRUE,
                       !.start_at = Day5]}

SelectCutoffs == {2, 4}

InitSelect ==
  /\ pc = "select"
  /\ only_emails = <<>>
  /\ ids = <<1, 2>>
  /\ contacts = <<Contact("a@c.io", "1"), Contact("b@c.io", "1")>>
  /\ owner_email_by_id = MapPut(EmptyMap, "1", "o1@s.io")
  /\ owner_lookups = <<"1">>
  /\ cust_to_owner = MapPut(MapPut(EmptyMap, "a@c.io", "o1@s.io"), "b@c.io", "o1@s.io")
  /\ emails = <<"a@c.io", "b@c.io">>
  /\ owners = <<"o1@s.io">>
  /\ contacts_by_owner = MapPut(EmptyMap, "o1@s.io", <<"a@c.io", "b@c.io">>)
  /\ bi = 1
  /\ oi = 1
  /\ ci = 1
  /\ all_items \in SeqsUpTo(MeetingKinds, MaxMeetings) \ {<<>>}
  /\ cutoff \in SelectCutoffs
  /\ filtered = <<>>
  /\ t_json = JNull
  /\ plain = ""
  /\ results = [contacts_processed |-> 2, emails_found |-> 2, meetings_found |-> 0,
                transcripts_posted |-> 0, errors |-> <<>>]
  /\ fetch_log = <<"o1@s.io">>
  /\ posts = <<>>

NextSelect == SelectMeeting /\ UNCHANGED <<httpVars, normVars, fetchVars, transVars, ingestVars>>

StartSelect == InitSelect /\ HttpIdle /\ NormIdle /\ FetchIdle /\ TransIdle /\ IngestIdle

SpecSelect == StartSelect /\ [][NextSelect]_vars

(***************************************************************************)
(* av_list_meetings_by_organizer, lines 130-159: one step per page request *)
(***************************************************************************)

\* most pages asked for, and most meetings in one page
MaxPages == 3
MaxChunk == 2

PagesValues == 0 .. MaxPages

\* a value of the "results" or "meetings" key: absent (or None), a list of
\* 0 .. MaxChunk meetings, or a truthy value that is not a list
NoKey == 0 - 1
NotAList == 0 - 2
ChunkValues == {NoKey, NotAList} \cup (0 .. MaxChunk)

\* the body of a page: invalid JSON, a JSON value that is not an object
\* (falsy, or truthy), or an object with its three keys
NoData == [results |-> NoKey, meetings |-> NoKey, next |-> ""]
PageData == [results : ChunkValues, meetings : ChunkValues, next : {"", "cursor"}]
PageBodies ==
  {[kind |-> k, data |-> NoData] : k \in {"invalid", "falsy", "truthy"}}
  \cup {[kind |-> "object", data |-> d] : d \in PageData}

\* line 147: data = r.json() or {}
DataOf(body) == IF body.kind = "falsy" THEN NoData ELSE body.data

TruthyChunk(v) == v = NotAList \/ v > 0

\* line 148: chunk = data.get("results") or data.get("meetings") or []
ChunkOf(d) ==
  IF TruthyChunk(d.results) THEN [key |-> "results", n |-> d.results]
  ELSE IF TruthyChunk(d.meetings) THEN [key |-> "meetings", n |-> d.meetings]
  ELSE [key |-> "empty", n |-> 0]

\* the meetings of one page, tagged with where they came from
Tagged(c, conv, pg) ==
  [k \in 1 .. c.n |-> [conv |-> conv, page |-> pg, k |-> k, of |-> c.n, key |-> c.key]]

\* lines 156-157: if items: break
StopSwitchingNever(its) == FALSE
StopSwitching(its) == its # <<>>

\* the two conventions of lines 134-137
Conventions == 2

InitFetch ==
  /\ fpc = "request"
  /\ tried = 1
  /\ pageno = 1
  /\ pages \in PagesValues
  /\ nxt = ""
  /\ items = <<>>
  /\ reqs = <<>>

\* what http_request hands back for a page: None, a success, or one of the
\* error statuses it does not retry
PageAnswers == {NoResponse, 200, 400, 403, 404}

\* line 140: range(max(1, pages))
PageLimitOneMore(p) == Max(1, p) + 1
PageLimit(p) == Max(1, p)

\* the break of lines 143, 145, 150, 154 or the end of range(max(1, pages)),
\* then lines 156-157 and the next convention or the return
EndConventionReturn(its) ==
  /\ fpc' = "returned"
  /\ UNCHANGED <<tried, pageno, nxt>>
EndConvention(its) ==
  IF StopSwitching(its) \/ tried = Conventions
  THEN /\ fpc' = "returned"
       /\ UNCHANGED <<tried, pageno, nxt>>
  ELSE /\ fpc' = "request"
       /\ tried' = tried + 1
       /\ pageno' = 1
       /\ nxt' = ""

\* the request of line 141, as logged
Request(r, more) ==
  [conv |-> tried, page |-> pageno, status |-> r, had |-> Len(items), more |-> more]

\* lines 141-155: one iteration of the page loop
FetchPage ==
  /\ fpc = "request"
  /\ \E r \in PageAnswers, body \in PageBodies :
       IF ~Ok(r) \/ r \in {400, 404}
       THEN /\ items' = items
            /\ reqs' = Append(reqs, Request(r, FALSE))
            /\ EndConvention(items)
       ELSE IF RaisesForStatus(r) \/ body.kind \in {"invalid", "truthy"}
       THEN /\ fpc' = "raised"
            /\ reqs' = Append(reqs, Request(r, FALSE))
            /\ UNCHANGED <<tried, pageno, nxt, items>>
       ELSE LET d == DataOf(body)
                c == ChunkOf(d)
            IN IF c.n = NotAList
               THEN /\ items' = items
                    /\ reqs' = Append(reqs, Request(r, FALSE))
                    /\ EndConvention(items)
               ELSE /\ items' = items \o Tagged(c, tried, pageno)
                    /\ reqs' = Append(reqs, Request(r, d.next # ""))
                    /\ IF d.next = "" \/ pageno = PageLimit(pages)
                       THEN EndConvention(items')
                       ELSE /\ nxt' = d.next
                            /\ pageno' = pageno + 1
                            /\ UNCHANGED <<fpc, tried>>
  /\ UNCHANGED pages

NextFetch == FetchPage /\ UNCHANGED <<httpVars, pipeVars, normVars, transVars, ingestVars>>

StartFetch == InitFetch /\ HttpIdle /\ PipeIdle /\ NormIdle /\ TransIdle /\ IngestIdle

SpecFetch == StartFetch /\ [][NextFetch]_vars

(***************************************************************************)
(* av_fetch_transcript_json (lines 161-175)                                *)
(***************************************************************************)

\* a body that r.json() cannot parse
Unparsable == [k |-> "invalid"]

THi == JObj(One("text", JStr(SHi)))
TAl == JObj(One("text", JStr(SAl)))

\* the bodies an endpoint may answer with
TransBodies ==
  {JNull, THi, JStr(SHi), JArr(<<>>), JArr(<<TAl, THi>>),
   JObj(One("results", JArr(<<THi>>))), JObj(One("results", JArr(<<>>))),
   JObj(One("results", JNull)), JObj(One("transcript", JStr(SHi))), Unparsable}

\* what http_request hands back for the endpoints
TransAnswers == {NoResponse, 200, 201, 404}

\* an answer with the body read from it (only a 200 is read)
TransReplies ==
  {<<r, JNull>> : r \in TransAnswers \ {200}} \cup {<<200, b>> : b \in TransBodies}

\* lines 163, 167, 170: r and r.status_code == 200
Is200(r) == Ok(r) /\ r = 200

\* line 165: if transcription_uuid
SecondAlways(uuid) == TRUE
SecondWanted(uuid) == uuid # ""

\* line 172: data.get("results", data) if isinstance(data, dict) else data
ItemsOf(data) ==
  IF data.k = "obj"
  THEN IF "results" \in DOMAIN data.o THEN data.o["results"] ELSE data
  ELSE data

\* lines 173-175: the first element of a non-empty list, else None
FirstOfList(list) ==
  IF list.k = "arr" /\ list.a # <<>> THEN list.a[1] ELSE JNull

Call(e, r, b) == [endpoint |-> e, status |-> r, body |-> b]

InitTranscript ==
  /\ tpc = "first"
  /\ transcription_uuid \in {"", "u-1"}
  /\ calls = <<>>
  /\ t_ret = JNull

\* lines 162-165: /v1/meetings/{id}/transcript
TranscriptFirst ==
  /\ tpc = "first"
  /\ \E rp \in TransReplies :
       /\ calls' = Append(calls, Call(1, rp[1], rp[2]))
       /\ IF Is200(rp[1])
          THEN IF rp[2] = Unparsable
               THEN tpc' = "raised" /\ UNCHANGED t_ret
               ELSE tpc' = "returned" /\ t_ret' = rp[2]
          ELSE /\ tpc' = IF SecondWanted(transcription_uuid) THEN "second" ELSE "third"
               /\ UNCHANGED t_ret
  /\ UNCHANGED transcription_uuid

\* lines 166-168: /v1/transcriptions/{uuid}
TranscriptSecond ==
  /\ tpc = "second"
  /\ \E rp \in TransReplies :
       /\ calls' = Append(calls, Call(2, rp[1], rp[2]))
       /\ IF Is200(rp[1])
          THEN IF rp[2] = Unparsable
               THEN tpc' = "raised" /\ UNCHANGED t_ret
               ELSE tpc' = "returned" /\ t_ret' = rp[2]
          ELSE tpc' = "third" /\ UNCHANGED t_ret
  /\ UNCHANGED transcription_uuid

\* lines 169-175: /v1/meetings/{id}/transcriptions
TranscriptThird ==
  /\ tpc = "third"
  /\ \E rp \in TransReplies :
       /\ calls' = Append(calls, Call(3, rp[1], rp[2]))
       /\ IF Is200(rp[1])
          THEN IF rp[2] = Unparsable
               THEN tpc' = "raised" /\ UNCHANGED t_ret
               ELSE tpc' = "returned" /\ t_ret' = FirstOfList(ItemsOf(rp[2]))
          ELSE tpc' = "returned" /\ t_ret' = JNull
  /\ UNCHANGED transcription_uuid

NextTranscript ==
  \/ TranscriptFirst /\ UNCHANGED <<httpVars, pipeVars, normVars, fetchVars, ingestVars>>
  \/ TranscriptSecond /\ UNCHANGED <<httpVars, pipeVars, normVars, fetchVars, ingestVars>>
  \/ TranscriptThird /\ UNCHANGED <<httpVars, pipeVars, normVars, fetchVars, ingestVars>>

StartTranscript == InitTranscript /\ HttpIdle /\ PipeIdle /\ NormIdle /\ FetchIdle /\ IngestIdle

SpecTranscript == StartTranscript /\ [][NextTranscript]_vars

(***************************************************************************)
(* hs_get_list_member_ids (lines 66-87) and hs_batch_read_contacts         *)
(* (lines 89-105), as run_pipeline calls them (lines 267-272)              *)
(***************************************************************************)

\* most membership pages the server hands out before it stops giving a
\* next-page token
MaxMemberPages == 3

\* how many members with a recordId a page holds (line 68: limit 100)
PageSizes == {0, 1, ChunkSize}

\* what http_request hands back for a membership page, for a batch read
MemberAnswers == {NoResponse, 200, 403, 404}
BatchAnswers == {NoResponse, 200, 400}

\* what a batch read that parsed holds: a record per input, or no "results"
BatchKinds == {"full", "none", "invalid"}

\* line 96: ids[i:i+100]
IdsChunkOverlap(list, i) == SubSeq(list, i + 1, Min(i + ChunkSize + 1, Len(list)))
IdsChunk(list, i) == SubSeq(list, i + 1, Min(i + ChunkSize, Len(list)))

InitIngest ==
  /\ gpc = "members"
  /\ after_token = 0
  /\ member_ids = <<>>
  /\ page_reqs = <<>>
  /\ chunk_i = 0
  /\ chunk_reqs = <<>>
  /\ records = <<>>

\* lines 86-87, 269-270, 90-91: the ids are returned; without ids nothing
\* is read
MembersReturned(list) == gpc' = IF list = <<>> THEN "done" ELSE "batch"

\* lines 70-85: one pass of the paging loop: a false response (None, or a
\* status of 400 and up) or a 404 breaks with the ids collected so far, a
\* body that does not parse raises, no next token ends the loop
MemberPage ==
  /\ gpc = "members"
  /\ \E rr \in MemberAnswers, body \in Bodies, n \in PageSizes, more \in BOOLEAN :
       /\ more => Len(page_reqs) + 1 < MaxMemberPages
       /\ IF ~Ok(rr) \/ rr = 404
          THEN /\ page_reqs' = Append(page_reqs, [after |-> after_token, status |-> rr, got |-> <<>>])
               /\ MembersReturned(member_ids)
               /\ UNCHANGED <<member_ids, after_token>>
          ELSE IF body = "invalid"
          THEN /\ page_reqs' = Append(page_reqs, [after |-> after_token, status |-> rr, got |-> <<>>])
               /\ gpc' = "raised"
               /\ UNCHANGED <<member_ids, after_token>>
          ELSE LET got == [j \in 1 .. n |-> Len(member_ids) + j]
               IN /\ page_reqs' = Append(page_reqs, [after |-> after_token, status |-> rr, got |-> got])
                  /\ member_ids' = member_ids \o got
                  /\ after_token' = IF more THEN Len(page_reqs) + 1 ELSE 0
                  /\ IF more THEN UNCHANGED gpc ELSE MembersReturned(member_ids \o got)
  /\ UNCHANGED <<chunk_i, chunk_reqs, records>>

\* lines 95-103: one pass of the chunk loop: a false response breaks with
\* the records read so far, a body that does not parse raises
BatchChunk ==
  /\ gpc = "batch"
  /\ LET chunk == IdsChunk(member_ids, chunk_i)
     IN \E r \in BatchAnswers, kind \in BatchKinds :
          IF ~Ok(r)
          THEN /\ chunk_reqs' = Append(chunk_reqs, [inputs |-> chunk, status |-> r, got |-> <<>>])
               /\ gpc' = "done"
               /\ UNCHANGED <<chunk_i, records>>
          ELSE IF kind = "invalid"
          THEN /\ chunk_reqs' = Append(chunk_reqs, [inputs |-> chunk, status |-> r, got |-> <<>>])
               /\ gpc' = "raised"
               /\ UNCHANGED <<chunk_i, records>>
          ELSE LET got == IF kind = "full" THEN chunk ELSE <<>>
               IN /\ chunk_reqs' = Append(chunk_reqs, [inputs |-> chunk, status |-> r, got |-> got])
                  /\ records' = records \o got
                  /\ chunk_i' = chunk_i + ChunkSize
                  /\ gpc' = IF chunk_i + ChunkSize < Len(member_ids) THEN "batch" ELSE "done"
  /\ UNCHANGED <<after_token, member_ids, page_reqs>>

NextIngest ==
  \/ MemberPage /\ UNCHANGED <<httpVars, pipeVars, normVars, fetchVars, transVars>>
  \/ BatchChunk /\ UNCHANGED <<httpVars, pipeVars, normVars, fetchVars, transVars>>

StartIngest == InitIngest /\ HttpIdle /\ PipeIdle /\ NormIdle /\ FetchIdle /\ TransIdle

SpecIngest == StartIngest /\ [][NextIngest]_vars

(***************************************************************************)
(* Properties of http_request                                              *)
(***************************************************************************)

\* the failure classes the specification lists for retry
SpecRetrySet == {429, 500, 502, 503, 504}
FailedAttempt(o) == o = Raised \/ o \in SpecRetrySet
AllFailed(s) == \A i \in 1 .. Len(s) : FailedAttempt(s[i])

\* C1: http_request never raises to its caller, and a call whose attempts all
\* raised or met a retryable status ends by returning None after the last
\* attempt the bound allows, whatever the bound and the interleaving.
C1_NullOnExhaustion ==
  /\ hpc \in {"loop", "returned"}
  /\ (hpc = "returned" /\ AllFailed(outcomes)) =>
        /\ ret = NoResponse
        /\ Len(outcomes) = (IF retries >= 1 THEN retries ELSE 1)
  /\ (hpc = "returned" /\ ret = NoResponse) => AllFailed(outcomes)

C1_Witness ==
  /\ hpc = "returned"
  /\ ret = NoResponse
  /\ retries = DefaultRetries
  /\ outcomes = <<Raised, 503, Raised, 429, 500>>

\* C2 (as stated): at most the configured bound of attempts, for every value
\* of the bound, and an attempt is followed by another only if it failed with
\* an exception or a retryable status.
C2_Original ==
  /\ Len(outcomes) >= 1 => Len(outcomes) <= retries
  /\ \A i \in 1 .. Len(outcomes) - 1 : FailedAttempt(outcomes[i])

\* C2 (amended): at most max(1, bound) attempts: the configured bound when it
\* is one or more, and one attempt when it is zero or negative; an attempt is
\* followed by another only if it failed with an exception or a retryable status.
C2_AtMostMaxOneBound ==
  /\ Len(outcomes) <= (IF retries >= 1 THEN retries ELSE 1)
  /\ \A i \in 1 .. Len(outcomes) - 1 : FailedAttempt(outcomes[i])

C2_Witness ==
  /\ retries = 0
  /\ hpc = "returned"
  /\ Len(outcomes) = 1

\* C3: the delay before the k-th retry is min(base * 2^(k-1), ceiling), so
\* every delay slept is at most the ceiling, for every configured base delay.
C3_DelaySequence ==
  \A k \in 1 .. Len(slept) :
    /\ slept[k] = Min(backoff_start * 2 ^ (k - 1), Ceiling)
    /\ slept[k] <= Ceiling

\* C4: a status outside the retry set is returned to the caller at once: it
\* is the last attempt, it is the value returned, and no delay follows it.
C4_NonRetryableReturned ==
  \A i \in 1 .. Len(outcomes) :
    (outcomes[i] # Raised /\ outcomes[i] \notin SpecRetrySet) =>
      /\ i = Len(outcomes)
      /\ hpc = "returned"
      /\ ret = outcomes[i]
      /\ Len(slept) = i - 1

C4_Witness ==
  /\ hpc = "returned"
  /\ outcomes = <<503, 404>>
  /\ ret = 404
  /\ Len(slept) = 1

\* the lower bound on the cumulative delay of k retries
RECURSIVE SpecDelaySum(_, _)
SpecDelaySum(base, k) ==
  IF k = 0 THEN 0
  ELSE Min(base * 2 ^ (k - 1), Ceiling) + SpecDelaySum(base, k - 1)

\* C5: k retryable failures (k below the bound) and then a success return the
\* successful response, after a cumulative delay of at least the sum of the
\* k retry delays; with the defaults, three 503 and a 200 return the 200
\* after at least 0.7 + 1.4.
C5_SuccessAfterFailures ==
  LET n == Len(outcomes)
  IN (/\ n >= 1
      /\ outcomes[n] \in {200, 201, 202, 204}
      /\ AllFailed(SubSeq(outcomes, 1, n - 1))) =>
        /\ hpc = "returned"
        /\ ret = outcomes[n]
        /\ Len(slept) = n - 1
        /\ SumSeq(slept) >= SpecDelaySum(backoff_start, n - 1)
        /\ (/\ retries = DefaultRetries
            /\ backoff_start = DefaultBackoff
            /\ outcomes = <<503, 503, 503, 200>>) => SumSeq(slept) >= 7 + 14

C5_Witness ==
  /\ retries = DefaultRetries
  /\ backoff_start = DefaultBackoff
  /\ outcomes = <<503, 503, 503, 200>>
  /\ hpc = "returned"
  /\ ret = 200
  /\ SumSeq(slept) = 49

(***************************************************************************)
(* Properties of run_pipeline                                              *)
(***************************************************************************)

LeafPhases == {"select", "transcript", "deliver"}

\* C6: in one run the meeting fetch is called at most once for an organizer,
\* only for organizers that have a leaf, exactly once for the organizer of a
\* leaf being processed and, when the run returns, exactly once for every
\* organizer of a leaf; the list it returned stays the list used for every
\* leaf of that organizer, and no fetch is issued between two of its leaves.
C6_FetchOnce ==
  /\ \A i, j \in 1 .. Len(fetch_log) : i # j => fetch_log[i] # fetch_log[j]
  /\ \A i \in 1 .. Len(fetch_log) :
       \E e \in Range(emails) : cust_to_owner[e] = fetch_log[i]
  /\ pc \in LeafPhases =>
       /\ Len(fetch_log) = oi
       /\ fetch_log[oi] = cust_to_owner[contacts_by_owner[owners[oi]][ci]]
  /\ pc = "done" =>
       {fetch_log[i] : i \in 1 .. Len(fetch_log)} = {cust_to_owner[e] : e \in Range(emails)}

C6_ListKept ==
  (pc \in LeafPhases /\ pc' \in LeafPhases) =>
     /\ all_items' = all_items
     /\ fetch_log' = fetch_log
     /\ oi' = oi

C6_FetchOncePerOrganizer == [](C6_FetchOnce) /\ [][C6_ListKept]_vars

C6_Witness ==
  /\ pc = "done"
  /\ emails = <<"a@c.io", "b@c.io">>
  /\ cust_to_owner["a@c.io"] = "o1@s.io"
  /\ cust_to_owner["b@c.io"] = "o1@s.io"
  /\ fetch_log = <<"o1@s.io">>
  /\ Len(posts) = 2

\* the four predicates of an eligible meeting, on the record
SpecEligible(m, organizer, leaf, cutoff_day) ==
  LET attendee_set == {NormEmail(m.attendees[i]) : i \in 1 .. Len(m.attendees)} \ {""}
      start_day == ParseIso(StartOf(m))
  IN /\ NormEmail(m.organizer_email) = organizer \/ organizer \in attendee_set
     /\ leaf \in attendee_set
     /\ \/ m.transcript_ready
        \/ m.transcription_uuid # ""
        \/ m.audio_ready
        \/ m.video_ready
        \/ m.processing_status = "transcription_available"
        \/ m.processing_status = "completed"
     /\ start_day # NoDate => start_day >= cutoff_day

EligibleNow ==
  {i \in 1 .. Len(all_items) :
     SpecEligible(all_items[i], owners[oi], contacts_by_owner[owners[oi]][ci], cutoff)}

\* C7: the meeting selected for an (organizer, leaf) pair satisfies the four
\* eligibility predicates; the meetings kept are exactly the eligible ones,
\* so none is selected exactly when none is eligible, and then the run moves
\* on to the next leaf with the summary and the deliveries untouched; a
\* meeting whose organizer field differs from the organizer and whose
\* attendees do not hold the organizer is never kept.
C7_Step ==
  pc = "select" =>
    /\ Range(filtered') = EligibleNow
    /\ filtered' # <<>> => filtered'[1] \in EligibleNow
    /\ (filtered' = <<>>) <=> (EligibleNow = {})
    /\ EligibleNow = {} =>
         /\ pc' \in {"select", "fetch", "done"}
         /\ results' = results
         /\ posts' = posts
         /\ (pc' = "select" => ci' = ci + 1 /\ oi' = oi)
    /\ \A i \in Range(filtered') :
         \/ NormEmail(all_items[i].organizer_email) = owners[oi]
         \/ owners[oi] \in AttendeesEmails(all_items[i])

C7_SelectedIsEligible == [][C7_Step]_vars

C7_Witness ==
  /\ pc = "transcript"
  /\ ci = 1
  /\ Len(all_items) = 2
  /\ all_items[1].organizer_email = "o2@s.io"
  /\ "o1@s.io" \notin AttendeesEmails(all_items[1])
  /\ filtered = <<2>>

\* C8: the meeting selected is an eligible one with the earliest parseable
\* start; eligible meetings whose start does not parse come after all those
\* whose start parses; and among meetings of equal rank the one first in
\* fetch order is selected.
StartDay(i) == ParseIso(StartOf(all_items[i]))
SameRank(i, j) == StartDay(i) = StartDay(j)

C8_Step ==
  (pc = "select" /\ filtered' # <<>>) =>
    LET sel == filtered'[1]
    IN /\ sel \in EligibleNow
       /\ \A j \in EligibleNow :
            StartDay(j) # NoDate => (StartDay(sel) # NoDate /\ StartDay(sel) <= StartDay(j))
       /\ \A p, q \in 1 .. Len(filtered') :
            (p < q /\ StartDay(filtered'[q]) # NoDate) =>
               (StartDay(filtered'[p]) # NoDate /\ StartDay(filtered'[p]) <= StartDay(filtered'[q]))
       /\ \A j \in EligibleNow : SameRank(sel, j) => sel <= j
       /\ \A p, q \in 1 .. Len(filtered') :
            (p < q /\ SameRank(filtered'[p], filtered'[q])) => filtered'[p] < filtered'[q]

C8_EarliestFirst == [][C8_Step]_vars

C8_Witness ==
  /\ pc = "transcript"
  /\ ci = 1
  /\ Len(all_items) = 3
  /\ all_items[1].start_at = ""
  /\ all_items[2].start_at = Day3
  /\ all_items[3].start_at = "2025-01-03T10:00:00+00:00"
  /\ filtered = <<2, 3, 1>>

(***************************************************************************)
(* Properties of av_list_meetings_by_organizer                             *)
(***************************************************************************)

\* the meetings of page pg among the gathered ones
OfPage(pg) == {i \in 1 .. Len(items) : items[i].page = pg}

\* C9: the alternate convention is entered only while the primary one has
\* yielded no meeting; the gathered meetings all come from one convention,
\* never from both; and they are whole pages of that convention in page
\* order, each page in the order of its response.
C9_OneConvention ==
  /\ tried = 2 => \A i \in 1 .. Len(items) : items[i].conv = 2
  /\ \A i, j \in 1 .. Len(items) : items[i].conv = items[j].conv
  /\ \A i, j \in 1 .. Len(items) :
       i < j => \/ items[i].page < items[j].page
                \/ items[i].page = items[j].page /\ items[i].k < items[j].k
  /\ \A i \in 1 .. Len(items) :
       {items[j].k : j \in OfPage(items[i].page)} = 1 .. items[i].of

C9_Witness ==
  /\ fpc = "returned"
  /\ tried = 2
  /\ Len(items) = 3
  /\ items[1].page = 1
  /\ items[3].page = 2

(***************************************************************************)
(* Properties of transcript_json_to_text                                   *)
(***************************************************************************)

RecognisedKeys ==
  {"content", "text", "transcript", "body", "speakers", "paragraphs", "segments", "results"}

EmptyPayload(t) ==
  \/ t \in {JNull, JObj(<<>>), JArr(<<>>)}
  \/ t.k = "str" /\ \A i \in 1 .. Len(t.s) : t.s[i] \in White

UnrecognisedShape(t) ==
  \/ t.k \in {"num", "bool"}
  \/ t.k = "obj" /\ DOMAIN t.o # {} /\ DOMAIN t.o \cap RecognisedKeys = {}

\* C11: for every empty payload (null, empty object, empty array, empty or
\* whitespace-only string) and every payload of unrecognised shape (a number,
\* a boolean, an object holding none of the recognised keys) the function
\* returns the empty string.
C11_EmptyToEmpty ==
  (npc # "start" /\ (EmptyPayload(payload) \/ UnrecognisedShape(payload))) =>
     out = Text(<<>>)

C11_Witness ==
  /\ npc = "done"
  /\ payload = JObj(One("note", JStr(SHi)))
  /\ out = Text(<<>>)

\* C12: whenever the function returns a string s, s has no leading or
\* trailing whitespace, and the function applied to s returns s.
C12_TrimmedIdempotent ==
  /\ (npc # "start" /\ out.st = "text") =>
        (out.s = <<>> \/ (out.s[1] \notin White /\ out.s[Len(out.s)] \notin White))
  /\ npc = "again" => again = out

C12_Witness ==
  /\ npc = "again"
  /\ payload = JObj(One("transcript", JStr(SYo)))
  /\ out = Text(<<"y", "o">>)
  /\ again = out

\* payloads of the turn-list-plus-speaker-table shape: an object whose
\* transcript is a sequence of turn objects and whose speakers is a sequence
\* of entries with an id and, possibly, a name
IdKinds == {"null", "num", "str"}
NameKinds == {"null", "str"}

TurnShape(t) ==
  /\ t.k = "obj"
  /\ DOMAIN t.o = {"transcript", "speakers"}
  /\ t.o["transcript"].k = "arr"
  /\ t.o["speakers"].k = "arr"
  /\ \A i \in 1 .. Len(t.o["transcript"].a) :
       LET tr == t.o["transcript"].a[i]
       IN /\ tr.k = "obj"
          /\ Get(tr.o, "transcript").k \in NameKinds
          /\ Get(tr.o, "text").k \in NameKinds
          /\ Get(tr.o, "speaker_id").k \in IdKinds
  /\ \A i \in 1 .. Len(t.o["speakers"].a) :
       LET sp == t.o["speakers"].a[i]
       IN /\ sp.k = "obj"
          /\ Get(sp.o, "id").k \in IdKinds
          /\ Get(sp.o, "name").k \in NameKinds
          /\ Get(sp.o, "speaker").k \in NameKinds

\* the text of a turn, trimmed
TurnText(tr) ==
  LET a == Get(tr.o, "transcript")
      b == Get(tr.o, "text")
  IN IF a.k = "str" /\ a.s # <<>> THEN Strip(a.s)
     ELSE IF b.k = "str" THEN Strip(b.s) ELSE <<>>

\* the entry of the table that speaks for an id: the last one carrying it
EntryFor(table, sid) ==
  LET hits == {i \in 1 .. Len(table) : sid # JNull /\ Get(table[i].o, "id") = sid}
  IN IF hits = {} THEN JNull ELSE table[CHOOSE i \in hits : \A j \in hits : j <= i]

NonEmptyStr(v) == v.k = "str" /\ v.s # <<>>

\* the prefix of a line: with fallback, an entry without a name still names
\* its speaker, by its `speaker` field or else as "Speaker <id>"
PrefixFor(table, sid, fallback) ==
  LET e == EntryFor(table, sid)
  IN IF e = JNull THEN <<>>
     ELSE IF NonEmptyStr(Get(e.o, "name")) THEN Get(e.o, "name").s \o <<":", " ">>
     ELSE IF ~fallback THEN <<>>
     ELSE IF NonEmptyStr(Get(e.o, "speaker")) THEN Get(e.o, "speaker").s \o <<":", " ">>
     ELSE <<"S", "p", "e", "a", "k", "e", "r", " ">> \o ToStr(sid) \o <<":", " ">>

RECURSIVE ExpectedLines(_, _, _, _)
ExpectedLines(turns, i, table, fallback) ==
  IF i > Len(turns) THEN <<>>
  ELSE LET txt == TurnText(turns[i])
           rest == ExpectedLines(turns, i + 1, table, fallback)
       IN IF txt = <<>> THEN rest
          ELSE <<PrefixFor(table, Get(turns[i].o, "speaker_id"), fallback) \o txt>> \o rest

ExpectedText(t, fallback) ==
  Text(Strip(JoinLines(ExpectedLines(t.o["transcript"].a, 1, t.o["speakers"].a, fallback))))

\* C13 as stated: one line per turn with non-empty text, in turn order, each
\* "<name>: <text>" with the name the table gives for the turn's speaker id,
\* or the bare text when the id is absent from the table or its entry has no
\* name.
C13_BareWhenNoName ==
  (npc # "start" /\ TurnShape(payload)) => out = ExpectedText(payload, FALSE)

\* C13: one line per turn with non-empty text, in turn order, each
\* "<name>: <text>" where <name> is the name of the last table entry with the
\* turn's speaker id, or that entry's `speaker` field when it has no name, or
\* "Speaker <id>" when it has neither; the bare text is emitted only when no
\* table entry carries the turn's speaker id.
C13_NameOrSpeakerId ==
  (npc # "start" /\ TurnShape(payload)) => out = ExpectedText(payload, TRUE)

C13_Witness ==
  /\ npc = "done"
  /\ TurnShape(payload)
  /\ Len(payload.o["speakers"].a) = 2
  /\ Len(payload.o["transcript"].a) = 2
  /\ out = Text(<<"A", "l", ":", " ", "h", "i", "\n",
                  "S", "p", "e", "a", "k", "e", "r", " ", "2", ":", " ", "y", "o">>)

(***************************************************************************)
(* Properties of the deliveries and of the run as a whole                  *)
(***************************************************************************)

SuccessStatuses == {200, 201, 202, 204}

\* the deliveries whose final response was no success, in order
FailedPosts == SelectSeq(posts, LAMBDA p : p.answer \notin SuccessStatuses)

\* C14: transcripts_posted counts exactly the deliveries whose final response
\* status is in {200, 201, 202, 204}; every other delivery, a null response
\* included, leaves exactly one entry in the error list, naming its meeting
\* identifier and the status observed; nothing is raised by a delivery and
\* the run goes on with the next leaf.
C14_DeliveryTally ==
  /\ results.transcripts_posted = Len(posts) - Len(FailedPosts)
  /\ Len(results.errors) = Len(FailedPosts)
  /\ \A i \in 1 .. Len(results.errors) :
       /\ i <= Len(FailedPosts)
       /\ results.errors[i].meeting_id = FailedPosts[i].meeting_id
       /\ results.errors[i].status = FailedPosts[i].answer

\* C15: no exception escapes run_pipeline, whatever the answers to its
\* outbound calls.
C15_NoExceptionEscapes == pc # "raised"

\* the end-to-end case: one list member, its leaf resolved to an organizer,
\* one meeting fetched for that organizer and eligible for the pair, and a
\* flat string handed back as its transcript
OneOfEach ==
  /\ pc = "done"
  /\ Len(ids) = 1
  /\ Len(contacts) = 1
  /\ Len(emails) = 1
  /\ Len(owners) = 1
  /\ Len(all_items) = 1
  /\ SpecEligible(all_items[1], owners[1], emails[1], cutoff)
  /\ t_json.k = "str"

OneDelivery ==
  /\ Len(posts) = 1
  /\ posts[1].email = emails[1]
  /\ posts[1].transcript_text = Strip(t_json.s)
  /\ posts[1].answer \in SuccessStatuses => results.transcripts_posted = 1

\* C16 as stated: in the end-to-end case with a non-empty flat-string
\* transcript T, the destination receives exactly one delivery, whose
\* transcript_text is T trimmed, and a success answer makes
\* transcripts_posted 1.
C16_EndToEndNonEmpty == (OneOfEach /\ t_json.s # <<>>) => OneDelivery

\* C16: the same for a transcript T that is non-empty once trimmed.
C16_EndToEndNonBlank == (OneOfEach /\ Strip(t_json.s) # <<>>) => OneDelivery

C16_Witness ==
  /\ OneOfEach
  /\ t_json.s = <<"h", "e", "l", "l", "o", " ", "w", "o", "r", "l", "d", "\n">>
  /\ Len(posts) = 1
  /\ posts[1].transcript_text = <<"h", "e", "l", "l", "o", " ", "w", "o", "r", "l", "d">>
  /\ posts[1].answer = 200
  /\ results.transcripts_posted = 1

(***************************************************************************)
(* Properties of the cutoff rule                                           *)
(***************************************************************************)

\* the three predicates of eligibility other than the cutoff rule
OtherThree(m, organizer, leaf) ==
  LET attendee_set == {NormEmail(m.attendees[i]) : i \in 1 .. Len(m.attendees)} \ {""}
  IN /\ NormEmail(m.organizer_email) = organizer \/ organizer \in attendee_set
     /\ leaf \in attendee_set
     /\ \/ m.transcript_ready
        \/ m.transcription_uuid # ""
        \/ m.audio_ready
        \/ m.video_ready
        \/ m.processing_status = "transcription_available"
        \/ m.processing_status = "completed"

\* C17: a meeting that satisfies the other three predicates is left out only
\* when its start time parses and is earlier than the cutoff; when its start
\* time is absent or does not parse it is kept.
C17_Step ==
  pc = "select" =>
    \A i \in 1 .. Len(all_items) :
      LET m == all_items[i]
          organizer == owners[oi]
          leaf == contacts_by_owner[organizer][ci]
      IN OtherThree(m, organizer, leaf) =>
           /\ StartDay(i) = NoDate => i \in Range(filtered')
           /\ i \notin Range(filtered') => (StartDay(i) # NoDate /\ StartDay(i) < cutoff)

C17_UnknownStartKept == [][C17_Step]_vars

C17_Witness ==
  /\ pc = "transcript"
  /\ ci = 1
  /\ cutoff = 4
  /\ Len(all_items) = 2
  /\ all_items[1].start_at = "not-a-date"
  /\ all_items[1].start_time = Day3
  /\ all_items[2].start_at = ""
  /\ all_items[2].start = ""
  /\ all_items[2].startTime = ""
  /\ filtered = <<1, 2>>

(***************************************************************************)
(* Properties of the page requests of av_list_meetings_by_organizer        *)
(***************************************************************************)

Aborting == {400, 404}

\* request i is the last one of its convention
LastOfConvention(i) == \A j \in 1 .. Len(reqs) : j > i => reqs[j].conv # reqs[i].conv

\* C18 as stated: a 400 or 404 at any page ends the attempt of the current
\* convention, and when that convention is the primary one the fetch goes on
\* to the alternate convention.
C18_AbortThenAlternate ==
  \A i \in 1 .. Len(reqs) :
    reqs[i].status \in Aborting =>
      /\ LastOfConvention(i)
      /\ reqs[i].conv = 1 => tried = 2

\* C18: a 400 or 404 at any page ends the attempt of the current convention;
\* when that convention is the primary one, the fetch goes on to the
\* alternate convention if no meeting had been gathered before the abort,
\* and otherwise returns the meetings gathered, without a further request.
C18_AbortThenAlternateIfEmpty ==
  \A i \in 1 .. Len(reqs) :
    reqs[i].status \in Aborting =>
      /\ LastOfConvention(i)
      /\ (reqs[i].conv = 1 /\ reqs[i].had = 0) => tried = 2
      /\ (reqs[i].conv = 1 /\ reqs[i].had > 0) =>
           /\ tried = 1
           /\ fpc = "returned"
           /\ i = Len(reqs)
           /\ Len(items) = reqs[i].had

C18_Witness ==
  /\ fpc = "request"
  /\ tried = 2
  /\ Len(reqs) = 2
  /\ reqs[1].conv = 1 /\ reqs[1].status = 200 /\ reqs[1].more
  /\ reqs[2].conv = 1 /\ reqs[2].page = 2 /\ reqs[2].status = 404 /\ reqs[2].had = 0

RequestsOf(c) == Cardinality({i \in 1 .. Len(reqs) : reqs[i].conv = c})

\* a page without a next-page token is the last request of its convention
StopsWithoutToken == \A i \in 1 .. Len(reqs) : ~reqs[i].more => LastOfConvention(i)

\* C19 as stated: at most maxPages page requests per convention, at most
\* 2 * maxPages per organizer, and none after a page without a next-page
\* token.
C19_AtMostPages ==
  /\ StopsWithoutToken
  /\ \A c \in 1 .. Conventions : RequestsOf(c) <= pages
  /\ Len(reqs) <= 2 * pages

\* C19: at most max(1, maxPages) page requests per convention, at most
\* 2 * max(1, maxPages) per organizer, none after a page without a next-page
\* token, and a request is pending only while that budget is not used up.
C19_AtMostMaxOnePages ==
  /\ StopsWithoutToken
  /\ \A c \in 1 .. Conventions : RequestsOf(c) <= Max(1, pages)
  /\ Len(reqs) <= 2 * Max(1, pages)
  /\ fpc = "request" => Len(reqs) < 2 * Max(1, pages)

C19_Witness ==
  /\ fpc = "returned"
  /\ pages = 2
  /\ Len(reqs) = 4
  /\ \A i \in 1 .. 4 : reqs[i].more

(***************************************************************************)
(* Rule order of transcript_json_to_text                                   *)
(***************************************************************************)

\* key holds a string that is non-empty once trimmed
HoldsText(o, key) == key \in DOMAIN o /\ o[key].k = "str" /\ Strip(o[key].s) # <<>>

LaterKeys == {"speakers", "paragraphs", "segments", "results"}

\* C20: when the payload is an object in which one of content, text,
\* transcript, body holds a string that is non-empty once trimmed, the result
\* is the trimmed value of the first such key in that order, whatever the
\* other keys hold.
C20_FlatFirst ==
  (npc # "start" /\ payload.k = "obj") =>
    LET o == payload.o
    IN /\ HoldsText(o, "content") => out = Text(Strip(o["content"].s))
       /\ (~HoldsText(o, "content") /\ HoldsText(o, "text")) => out = Text(Strip(o["text"].s))
       /\ (~HoldsText(o, "content") /\ ~HoldsText(o, "text") /\ HoldsText(o, "transcript")) =>
            out = Text(Strip(o["transcript"].s))
       /\ (~HoldsText(o, "content") /\ ~HoldsText(o, "text") /\ ~HoldsText(o, "transcript")
             /\ HoldsText(o, "body")) =>
            out = Text(Strip(o["body"].s))

C20_Witness ==
  /\ npc = "done"
  /\ payload.k = "obj"
  /\ DOMAIN payload.o = {"body", "text", "results"}
  /\ HoldsText(payload.o, "body")
  /\ HoldsText(payload.o, "text")
  /\ out = Text(<<"y", "o">>)

(***************************************************************************)
(* Depth of the recursion of transcript_json_to_text                       *)
(***************************************************************************)

\* C21: a payload nested, through results wrappers or arrays, deeper than
\* the bound normalizes to the empty string.
C21_DeepIsEmpty ==
  (npc # "start" /\ CallDepth(payload) > RecursionLimit) => out = Text(<<>>)

(***************************************************************************)
(* Properties of the correlation of leaves and organizers                  *)
(***************************************************************************)

\* the owner reference of a record resolved to a non-empty owner email
Resolved(c, byId) ==
  LET ref == StripId(c.hubspot_owner_id)
  IN ref # "" /\ ref \in DOMAIN byId /\ byId[ref] # ""

\* the records that carry a leaf, and those among them whose owner resolved
RecordsOf(leaf) == {i \in 1 .. Len(contacts) : NormEmail(contacts[i].email) = leaf}
ResolvedRecordsOf(leaf) ==
  {i \in RecordsOf(leaf) : Resolved(contacts[i], owner_email_by_id)}

LastOf(S) == CHOOSE i \in S : \A j \in S : j <= i

ExpectedLeaves ==
  LET kept == {NormEmail(contacts[i].email) :
                 i \in {j \in 1 .. Len(contacts) :
                          /\ NormEmail(contacts[j].email) # ""
                          /\ Resolved(contacts[j], owner_email_by_id)}}
      allow == {NormEmail(only_emails[i]) : i \in 1 .. Len(only_emails)}
  IN IF only_emails = <<>> THEN kept ELSE kept \cap allow

\* the step of lines 280-304
Correlated == pc = "owners" /\ pc' # "owners"

\* C22: the leaves of a run are exactly the lower-cased, trimmed, non-empty
\* emails of the batch-read records whose owner reference resolved to a
\* non-empty owner email, cut to the allow-list when one is given, each leaf
\* once.
C22_Step ==
  Correlated =>
    /\ Range(emails') = ExpectedLeaves
    /\ \A i, j \in 1 .. Len(emails') : i # j => emails'[i] # emails'[j]
    /\ results'.emails_found = Cardinality(ExpectedLeaves)

C22_LeafSet == [][C22_Step]_vars

C22_Witness ==
  /\ pc = "fetch"
  /\ only_emails = <<>>
  /\ contacts = <<Contact("a@c.io", "2"), Contact("b@c.io", "1")>>
  /\ "1" \in DOMAIN owner_email_by_id
  /\ "2" \notin DOMAIN owner_email_by_id
  /\ emails = <<"b@c.io">>

\* C23: at most one owner lookup is issued per distinct non-empty owner
\* reference of the batch-read records, and none for a reference that no
\* record carries.
C23_LookupPerReference ==
  /\ \A i, j \in 1 .. Len(owner_lookups) : i # j => owner_lookups[i] # owner_lookups[j]
  /\ \A i \in 1 .. Len(owner_lookups) :
       /\ owner_lookups[i] # ""
       /\ \E k \in 1 .. Len(contacts) : contacts[k].hubspot_owner_id = owner_lookups[i]

C23_Witness ==
  /\ pc = "fetch"
  /\ Len(contacts) = 2
  /\ contacts[1].hubspot_owner_id = "1"
  /\ contacts[2].hubspot_owner_id = "1"
  /\ contacts[1].email # contacts[2].email
  /\ owner_lookups = <<"1">>

\* C24 as stated: a leaf maps to one organizer, the owner email of the last
\* batch-read record that carries the leaf.
C24_OriginalStep ==
  Correlated =>
    \A leaf \in DOMAIN cust_to_owner' :
      LET last == contacts[LastOf(RecordsOf(leaf))]
      IN /\ Resolved(last, owner_email_by_id)
         /\ cust_to_owner'[leaf] = owner_email_by_id[StripId(last.hubspot_owner_id)]

C24_LastRecordWins == [][C24_OriginalStep]_vars

\* C24: a leaf maps to one organizer, the owner email of the last batch-read
\* record that carries the leaf and whose owner reference resolved; records
\* whose owner reference did not resolve leave the mapping as it was.
C24_Step ==
  Correlated =>
    /\ DOMAIN cust_to_owner' =
         {leaf \in {NormEmail(contacts[i].email) : i \in 1 .. Len(contacts)} \ {""} :
            ResolvedRecordsOf(leaf) # {}}
    /\ \A leaf \in DOMAIN cust_to_owner' :
         LET last == contacts[LastOf(ResolvedRecordsOf(leaf))]
         IN cust_to_owner'[leaf] = owner_email_by_id[StripId(last.hubspot_owner_id)]

C24_LastResolvedWins == [][C24_Step]_vars

C24_Witness ==
  /\ pc = "fetch"
  /\ contacts = <<Contact("a@c.io", "1"), Contact("a@c.io", "2")>>
  /\ DOMAIN owner_email_by_id = {"1", "2"}
  /\ owner_email_by_id["1"] = "o1@s.io"
  /\ owner_email_by_id["2"] = "o2@s.io"
  /\ cust_to_owner["a@c.io"] = "o2@s.io"

(***************************************************************************)
(* Properties of the deliveries and of the counters                        *)
(***************************************************************************)

\* C26: a leaf causes at most one delivery, every delivery carries a
\* non-empty meeting identifier and a non-empty transcript_text, and an
\* error entry is written only for a delivery: a leaf that is skipped for
\* want of an identifier or of a transcript leaves neither.
C26_OneDeliveryPerLeaf ==
  /\ \A i, j \in 1 .. Len(posts) : i # j => posts[i].email # posts[j].email
  /\ \A i \in 1 .. Len(posts) :
       /\ posts[i].email \in Range(emails)
       /\ posts[i].meeting_id # ""
       /\ posts[i].transcript_text # <<>>
  /\ Len(results.errors) + results.transcripts_posted = Len(posts)
  /\ Len(posts) <= Len(emails)

C26_Witness ==
  /\ pc = "done"
  /\ Len(emails) = 2
  /\ Len(owners) = 1
  /\ Len(posts) = 1
  /\ posts[1].email = emails[2]
  /\ results.errors = <<>>

\* the counters and the error list only grow
CountersGrow ==
  /\ results'.contacts_processed >= results.contacts_processed
  /\ results'.emails_found >= results.emails_found
  /\ results'.meetings_found >= results.meetings_found
  /\ results'.transcripts_posted >= results.transcripts_posted
  /\ Len(results'.errors) >= Len(results.errors)
  /\ SubSeq(results'.errors, 1, Len(results.errors)) = results.errors

\* meetings_found moves exactly with a delivery, by the number of eligible
\* meetings of the leaf delivered for
FoundWithDelivery ==
  IF posts' # posts
  THEN /\ Len(posts') = Len(posts) + 1
       /\ Cardinality(EligibleNow) >= 1
       /\ results'.meetings_found = results.meetings_found + Cardinality(EligibleNow)
  ELSE results'.meetings_found = results.meetings_found

CountersBalance ==
  /\ results.transcripts_posted + Len(results.errors) = Len(posts)
  /\ Len(posts) <= results.emails_found
  /\ results.meetings_found >= results.transcripts_posted + Len(results.errors)

\* C27: the counters never decrease; transcripts_posted plus the number of
\* error entries is the number of deliveries attempted, at most emails_found;
\* meetings_found grows only with a delivery, by the number of eligible
\* meetings of its leaf, so it is at least transcripts_posted plus the number
\* of error entries.
C27_Counters == [](pc \notin {"start", "page", "batch", "owners"} => CountersBalance)
                  /\ [][CountersGrow /\ FoundWithDelivery]_vars

C27_Witness ==
  /\ pc = "done"
  /\ Len(emails) = 1
  /\ filtered # <<>>
  /\ t_json = JObj(<<>>)
  /\ posts = <<>>
  /\ results.meetings_found = 0

(***************************************************************************)
(* Properties of the organizer groups                                      *)
(***************************************************************************)

\* the places <<organizer, index>> of the groups that hold the leaf
PlacesOf(leaf) ==
  {<<o, i>> \in Range(owners) \X (1 .. MaxContacts) :
      i <= Len(contacts_by_owner[o]) /\ contacts_by_owner[o][i] = leaf}

Grouped == owners # <<>>

GroupsPartition ==
  /\ \A i, j \in 1 .. Len(owners) : i # j => owners[i] # owners[j]
  /\ \A o \in Range(owners) :
       /\ contacts_by_owner[o] # <<>>
       /\ Range(contacts_by_owner[o]) \subseteq Range(emails)
  /\ \A leaf \in Range(emails) :
       /\ Cardinality(PlacesOf(leaf)) = 1
       /\ \A pl \in PlacesOf(leaf) : pl[1] = cust_to_owner[leaf]

\* the leaf loop only moves forward: to the next leaf of the group, or from
\* the fetch for an organizer to the first leaf of its group; the organizer
\* loop moves to the next organizer
LoopsForward ==
  /\ oi' # oi => oi' = oi + 1
  /\ (pc' = "select" /\ pc \in LeafPhases /\ Grouped) =>
        oi' = oi /\ ci' = ci + 1 /\ ci' <= Len(contacts_by_owner[owners[oi]])
  /\ (pc' = "select" /\ pc = "fetch") => oi' = oi /\ ci' = 1

\* C29: the organizer groups partition the processed leaves: every leaf is
\* at exactly one place of exactly one group, the group of the organizer it
\* maps to, no group is empty, and the loops over the organizers and over
\* their groups only move forward, so that no leaf is visited twice.
C29_GroupsPartition == [](Grouped => GroupsPartition) /\ [][LoopsForward]_vars

C29_Witness ==
  /\ pc = "done"
  /\ Len(owners) = 2
  /\ Len(emails) = 2
  /\ Len(fetch_log) = 2
  /\ oi = 2 /\ ci = 1

(***************************************************************************)
(* Properties of the sleeps of http_request                                *)
(***************************************************************************)

FailedCount(s) == Cardinality({i \in 1 .. Len(s) : FailedAttempt(s[i])})

\* C28: http_request sleeps once after every failed attempt, the last one
\* included: a call that returns None after n attempts has slept n times
\* (0.7, 1.4, 2.8, 5.6 and 11.2 under the defaults, 21.7 in all), and a call
\* that has returned has made at least one attempt, also under a bound of
\* zero or less.
C28_SleepPerFailure ==
  /\ Len(slept) = FailedCount(outcomes)
  /\ (hpc = "returned" /\ ret = NoResponse) =>
        /\ Len(outcomes) = (IF retries >= 1 THEN retries ELSE 1)
        /\ Len(slept) = Len(outcomes)
        /\ (retries = DefaultRetries /\ backoff_start = DefaultBackoff) =>
              /\ slept = <<7, 14, 28, 56, 112>>
              /\ SumSeq(slept) = 217
  /\ hpc = "returned" => Len(outcomes) >= 1

C28_Witness ==
  /\ hpc = "returned"
  /\ ret = NoResponse
  /\ retries = DefaultRetries
  /\ backoff_start = DefaultBackoff
  /\ outcomes = <<503, Raised, 503, Raised, Raised>>
  /\ SumSeq(slept) = 217

(***************************************************************************)
(* Properties of av_fetch_transcript_json                                  *)
(***************************************************************************)

Answered200(i) == calls[i].status = 200

EndpointsCalled == [i \in 1 .. Len(calls) |-> calls[i].endpoint]

\* C25 (as stated): the endpoints are requested in the order 1, 2, 3; an
\* endpoint that answers 200 is the last one requested and its body is the
\* value returned; None is returned only when no endpoint answered 200.
C25_FirstOkBody ==
  /\ \A i, j \in 1 .. Len(calls) : i < j => calls[i].endpoint < calls[j].endpoint
  /\ \A i \in 1 .. Len(calls) :
       Answered200(i) =>
         /\ i = Len(calls)
         /\ tpc = "returned" => t_ret = calls[i].body
  /\ (tpc = "returned" /\ t_ret = JNull) =>
        \A i \in 1 .. Len(calls) : ~Answered200(i)

\* the endpoints a call goes through when none answers 200
EndpointPlan == IF transcription_uuid # "" THEN <<1, 2, 3>> ELSE <<1, 3>>

\* what a 200 of the list endpoint yields: the first element of the body
\* when it is a list, of its "results" when it is an object, if that is a
\* non-empty list; else None
ListYield(b) ==
  LET list == IF b.k = "arr" THEN b.a
              ELSE IF b.k = "obj" /\ "results" \in DOMAIN b.o /\ b.o["results"].k = "arr"
                   THEN b.o["results"].a
                   ELSE <<>>
  IN IF list = <<>> THEN JNull ELSE list[1]

\* C25 (amended): the endpoints are requested in the order meeting
\* transcript, transcription by reference (only when a reference is given),
\* meeting transcriptions list; an endpoint that answers 200 is the last one
\* requested; a 200 of the first or second returns its body, a 200 of the
\* third returns the first element of its list, or None when it holds no
\* non-empty list; without a 200 every endpoint of the plan is requested and
\* None is returned; a 200 whose body does not parse raises.
C25_FirstOkWins ==
  /\ EndpointsCalled = SubSeq(EndpointPlan, 1, Len(calls))
  /\ \A i \in 1 .. Len(calls) : Answered200(i) => i = Len(calls)
  /\ tpc \in {"returned", "raised"} => calls # <<>>
  /\ tpc = "returned" =>
       LET last == calls[Len(calls)]
       IN IF last.status = 200
          THEN /\ last.body # Unparsable
               /\ t_ret = IF last.endpoint = 3 THEN ListYield(last.body) ELSE last.body
          ELSE /\ t_ret = JNull
               /\ EndpointsCalled = EndpointPlan
  /\ tpc = "raised" =>
       /\ calls[Len(calls)].status = 200
       /\ calls[Len(calls)].body = Unparsable

C25_Witness ==
  /\ tpc = "returned"
  /\ transcription_uuid # ""
  /\ EndpointsCalled = <<1, 2, 3>>
  /\ calls[3].status = 200
  /\ calls[3].body = JObj(One("results", JArr(<<>>)))
  /\ t_ret = JNull

(***************************************************************************)
(* Properties of the membership paging and of the batch read               *)
(***************************************************************************)

\* the inputs of the first n batch requests, the records of the first n
\* batch requests, the ids of the first n membership pages, one after another
RECURSIVE InputsUpTo(_)
InputsUpTo(n) == IF n = 0 THEN <<>> ELSE InputsUpTo(n - 1) \o chunk_reqs[n].inputs
RECURSIVE RecordsUpTo(_)
RecordsUpTo(n) == IF n = 0 THEN <<>> ELSE RecordsUpTo(n - 1) \o chunk_reqs[n].got
RECURSIVE IdsUpTo(_)
IdsUpTo(n) == IF n = 0 THEN <<>> ELSE IdsUpTo(n - 1) \o page_reqs[n].got

\* C30: the batch requests carry consecutive chunks of the identifiers, of
\* 100 each but for the last, in input order and without an identifier sent
\* twice; all identifiers are sent unless a request failed; a request that
\* comes back None is the last one and the records of the earlier chunks
\* are returned; a membership page that comes back None or 404 is the last
\* one and the identifiers of the earlier pages are returned.
C30_ChunksAndPartialResults ==
  /\ \A k \in 1 .. Len(chunk_reqs) :
       /\ chunk_reqs[k].inputs # <<>>
       /\ Len(chunk_reqs[k].inputs) <= 100
       /\ k < Len(chunk_reqs) => Len(chunk_reqs[k].inputs) = 100
       /\ chunk_reqs[k].status = NoResponse =>
            /\ k = Len(chunk_reqs)
            /\ gpc = "done"
            /\ records = RecordsUpTo(k - 1)
  /\ InputsUpTo(Len(chunk_reqs)) = SubSeq(member_ids, 1, Len(InputsUpTo(Len(chunk_reqs))))
  /\ \A a, b \in 1 .. Len(member_ids) : a # b => member_ids[a] # member_ids[b]
  /\ (gpc = "done" /\ \A k \in 1 .. Len(chunk_reqs) : chunk_reqs[k].status = 200) =>
        InputsUpTo(Len(chunk_reqs)) = member_ids
  /\ \A p \in 1 .. Len(page_reqs) :
       page_reqs[p].status \in {NoResponse, 404} =>
         /\ p = Len(page_reqs)
         /\ gpc # "members"
         /\ gpc = "raised" => chunk_reqs # <<>>
         /\ member_ids = IdsUpTo(p - 1)

C30_Witness ==
  /\ gpc = "done"
  /\ Len(page_reqs) = 3
  /\ page_reqs[3].status = 404
  /\ Len(member_ids) = 101
  /\ Len(chunk_reqs) = 2
  /\ chunk_reqs[2].status = NoResponse
  /\ Len(records) = 100

====
